--------------------------- MODULE MCDeployments ---------------------------
(* Small instances of Deployments.                                         *)
EXTENDS Deployments, TLC

CONSTANTS d1, d2, ann, ben, blog, shop

(* Two deployments of one project, each of a token of its own.            *)
PairTogether == d1 :> blog @@ d2 :> blog
TwoTokens == d1 :> ann @@ d2 :> ben

(* Two deployments of one token, of two projects.                          *)
PairApart == d1 :> blog @@ d2 :> shop
PairToken == d1 :> ann @@ d2 :> ann

UploadSymmetry == Permutations(Upload)
=============================================================================
