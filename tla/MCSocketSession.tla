---- MODULE MCSocketSession ----
EXTENDS SocketSession, TLC

CONSTANTS r1, r2, r3, s1, u1, u2

Handshake(a, b) == [t \in {"access", "refresh"} |-> IF t = "access" THEN a ELSE b]

\* The tokens of two users, either way round, a refresh token only, and an access token that does
\* not verify.
MCHandshakes == {Handshake(u1, u2), Handshake(u2, u1), Handshake(Absent, u1), Handshake(Invalid, Absent)}

Symmetry == Permutations(Requests)
====
