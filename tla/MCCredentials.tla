--------------------------- MODULE MCCredentials ---------------------------
(* Instances of Credentials for TLC. *)
EXTENDS Credentials

Allow(f) == [e \in Events |-> IF e \in DOMAIN f THEN f[e] ELSE 0]

\* Two chats with an expired or refused credential while the user logs in.
Chatting == Allow([use |-> 2, deny |-> 1, expire |-> 1, login |-> 1])
\* A chat against a login, a logout and a switch.
Switching == Allow([use |-> 1, deny |-> 1, login |-> 1, logout |-> 1,
                    activate |-> 1])
\* Accounts coming and going.
Visiting == Allow([use |-> 1, deny |-> 1, import |-> 1, remove |-> 1,
                   heal |-> 1, reload |-> 1])
Everything == {Chatting, Switching, Visiting}

\* The shortest stories of the disagreements.
LoginBesideChat  == {Allow([use |-> 1, deny |-> 1, login |-> 1])}
ChatThenSwitch   == {Allow([use |-> 1, deny |-> 1, activate |-> 1])}

=============================================================================
