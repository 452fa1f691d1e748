---- MODULE MCPeople ----
(* The registries to start from, for TLC: nobody has access and one may      *)
(* create, or one is Admin.                                                  *)
EXTENDS People, FiniteSets, TLC

MCBegins ==
    {r \in Registries :
        \/ r.role \in [People -> {"none"}] /\ Cardinality(r.create) = 1
        \/ r.create = {} /\ Cardinality({p \in People : r.role[p] = "admin"}) = 1
                        /\ \A p \in People : r.role[p] # "visitor"}

Sym == Permutations(People) \cup Permutations(Jobs)
====
