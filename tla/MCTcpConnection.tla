--------------------------- MODULE MCTcpConnection ---------------------------
(* Programs around a TcpConnection.                                        *)
EXTENDS TcpConnection

CONSTANT m1   \* the message of the programs that send a single one

\* The callbacks close in every way, another thread sends.
InLoop == [callback |-> {"send", "shutdown", "forceClose", "forceCloseWithDelay"},
           user |-> {"send"}, happens |-> {"peerCloses"}, messages |-> Messages,
           maxCalls |-> 2]

\* The same without another thread sending, but with one that drops its pointer.
Dropped == [InLoop EXCEPT !.user = {}, !.happens = {"peerCloses", "userDrops"},
                          !.messages = {m1}]

\* Another thread sends and shuts down; the peer closes after our FIN.
FromUser == [callback |-> {"send"}, user |-> {"send", "shutdown"},
             happens |-> {}, messages |-> Messages, maxCalls |-> 2]

\* Another thread sends, pauses and resumes reading on a connection that stays up.
Paused == [callback |-> {"send"}, user |-> {"send", "startRead", "stopRead"},
           happens |-> {}, messages |-> {m1}, maxCalls |-> 3]

\* One forced close from another thread, which then drops its pointer.
UserCloses == [callback |-> {"send"}, user |-> {"forceClose", "forceCloseWithDelay"},
               happens |-> {"userDrops"}, messages |-> {m1}, maxCalls |-> 1]

\* The server is destroyed while the connection is up, reading perhaps paused.
ServerGone == [callback |-> {"send", "startRead", "stopRead"}, user |-> {"send"},
               happens |-> {"serverDestroyed"}, messages |-> {m1}, maxCalls |-> 2]

\* The callbacks pause reading; the peer closes or resets while output is buffered.
PausedReset == [callback |-> {"send", "stopRead", "startRead"}, user |-> {},
                happens |-> {"peerCloses"}, messages |-> Messages, maxCalls |-> 2]

MCUsages == {InLoop, Dropped, FromUser, Paused, UserCloses, ServerGone, PausedReset}

\* the programs that the theorems of TcpConnectionProofs speak of
ASSUME UsagesCareful == \A u \in Usages : Careful(u)
=============================================================================
