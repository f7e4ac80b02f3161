--------------------------- MODULE MCTemplateCache ---------------------------
(* TemplateCache on a small instance.                                         *)
EXTENDS TemplateCache

\* A pyramid is larger than one scale; that of the second version is larger than
\* the whole cache.
MCSize == [mv \in {"one", "all"} \X (1..3) |->
              IF mv[1] = "one" THEN 1 ELSE IF mv[2] = 2 THEN 4 ELSE 2]

Symmetry == Permutations(Files) \cup Permutations(Loaders)
==============================================================================
