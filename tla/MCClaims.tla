---- MODULE MCClaims ----
(* Bounds for TLC: how many of each kind of event. *)
EXTENDS Claims, TLC

Each(s, o, t, r, x) ==
    [kind \in Kinds |-> CASE kind = "ssh" -> s [] kind = "ownerWrite" -> o [] kind = "tokenWrite" -> t
                          [] kind = "remove" -> r [] kind = "stop" -> x]

\* One of each; and the two writes into the store alone.
WritesOnly == Each(0, 1, 1, 0, 0)
OneOfEach == Each(1, 1, 1, 1, 1)

Sym == Permutations(Tokens)
====
