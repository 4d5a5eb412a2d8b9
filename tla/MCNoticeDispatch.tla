-------------------------- MODULE MCNoticeDispatch --------------------------
(***************************************************************************)
(* Instances of NoticeDispatch for TLC.  n1 and n2 are cross-posts of one  *)
(* article on two boards with a topic each, n3 is its mirror on the board  *)
(* without a topic (skku-main), and n4 is another article.                 *)
(***************************************************************************)
EXTENDS NoticeDispatch, TLC

CONSTANTS n1, n2, n3, n4, t1, t2

MCDedupKeyOf == [n \in Notice |-> IF n = n4 THEN "other" ELSE "article"]

MCTopicsOf == [n \in Notice |-> CASE n = n1 -> {t1}
                                  [] n = n3 -> {}
                                  [] OTHER  -> {t2}]

\* Without fairness the processes are alike.
ServerSymmetry == Permutations(Server)
=============================================================================
