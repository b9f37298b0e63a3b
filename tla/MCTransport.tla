---------------------------- MODULE MCTransport ----------------------------
(* Small instances of Transport.                                           *)
EXTENDS Transport

CONSTANTS c1, a1, a2, e1, e2

OneCmd == {c1}
TwoAuths == {a1, a2}
OneEncrypt == {e1}
TwoEncrypts == {e1, e2}

Plain == {FALSE}
Encrypted == {TRUE}
PlainOrEncrypted == BOOLEAN

\* What the transport is built to survive ...
Survivable == {"refusal", "rejection", "sessionLost", "local"}
\* ... and what else ends the listener.
AnyTrouble == Survivable \cup {"noise", "encryptionLost", "dismissal", "crash"}
NoTrouble == {}
Crash == {"crash"}
=============================================================================
