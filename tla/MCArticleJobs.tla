---------------------------- MODULE MCArticleJobs ----------------------------
(* Small instances of ArticleJobs for TLC. *)
EXTENDS ArticleJobs, TLC

\* Contents are interchangeable where none is repetitive and no liveness is checked.
ContentSymmetry == Permutations(Contents)
=============================================================================
