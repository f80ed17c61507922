----------------------------- MODULE MCIortTable -----------------------------
(* Tables of four or five nodes in every order, with the SMMU mappings that   *)
(* boards come with and the ones the builder must refuse.                     *)
EXTENDS IortTable, FiniteSets

MCBases == <<1, 2>>

Fixed(type) == CASE type = "its" -> 24 [] type = "smmu" -> 68
                 [] type = "pmcg" -> 40 [] type = "rc" -> 40

\* A mapping of a node, by the position of the node it names.
To(k, single, whole) == [to |-> k, single |-> single, whole |-> whole]

\* A table laid out from its nodes' types, bases, mappings and indices.
Lay(parts, revision) ==
  LET size(k) == Fixed(parts[k].type) + MappingLen * Len(parts[k].maps)
      at[k \in 1..Len(parts) + 1] == IF k = 1 THEN HeaderLen ELSE at[k - 1] + size(k - 1)
  IN [length |-> at[Len(parts) + 1], size |-> at[Len(parts) + 1],
      revision |-> revision, sum |-> TRUE,
      nodes |-> [k \in DOMAIN parts |->
        [type |-> parts[k].type, at |-> at[k], len |-> size(k), rev |-> 4,
         base |-> parts[k].base, flags |-> parts[k].flags, idx |-> parts[k].idx,
         mapAt |-> IF parts[k].maps = <<>> THEN 0 ELSE Fixed(parts[k].type),
         maps |-> [j \in DOMAIN parts[k].maps |->
           [ref |-> at[parts[k].maps[j].to], single |-> parts[k].maps[j].single,
            whole |-> parts[k].maps[j].whole]],
         gsiv |-> 30]]]

Orders == {o \in [{"its", "smmu1", "smmu2", "rc"} -> 1..4] : \A x, y \in DOMAIN o : o[x] = o[y] => x = y}
Shapes == {"none", "down", "both", "last", "narrow", "foreign", "beyond"}

SmmuPart(o, base, shape) ==
  [type |-> "smmu", base |-> base,
   flags |-> IF base = 1 THEN {"httu_a"} ELSE {},
   idx |-> CASE shape = "last" -> 1 [] shape = "beyond" -> 2 [] OTHER -> 0,
   maps |-> CASE shape = "none" -> <<>>
              [] shape \in {"down", "beyond"} -> <<To(o["its"], FALSE, TRUE)>>
              [] shape = "both" -> <<To(o["its"], TRUE, FALSE), To(o["its"], FALSE, TRUE)>>
              [] shape = "last" -> <<To(o["its"], FALSE, TRUE), To(o["its"], FALSE, FALSE)>>
              [] shape = "narrow" -> <<To(o["its"], FALSE, FALSE)>>
              [] shape = "foreign" -> <<To(o["rc"], FALSE, TRUE)>>]

Part(o, k, s1, s2) ==
  CASE o["its"] = k -> [type |-> "its", base |-> 0, flags |-> {}, idx |-> 0, maps |-> <<>>]
    [] o["smmu1"] = k -> SmmuPart(o, 1, s1)
    [] o["smmu2"] = k -> SmmuPart(o, 2, s2)
    [] o["rc"] = k -> [type |-> "rc", base |-> 0, flags |-> {}, idx |-> 0,
                       maps |-> <<To(o["smmu1"], FALSE, TRUE), To(o["its"], FALSE, FALSE),
                                  To(o["smmu2"], FALSE, FALSE)>>]

Front == [its |-> 1, smmu1 |-> 2, smmu2 |-> 3, rc |-> 4]
Pmcg(to) == [type |-> "pmcg", base |-> 0, flags |-> {}, idx |-> 0, maps |-> <<To(to, TRUE, FALSE)>>]

\* A PMCG behind the rest, a second ITS group behind the rest, and a table
\* without a second SMMU.
Fifth == [pmcg |-> Pmcg(3), its |-> Part(Front, 1, "none", "none")]
OddParts ==
  {[k \in 1..5 |-> IF k = 5 THEN Fifth[x] ELSE Part(Front, k, "down", "none")] : x \in DOMAIN Fifth}
  \cup {[k \in 1..2 |-> Part(Front, k, "down", "none")]}

Parts ==
  OddParts \cup {[k \in 1..4 |-> Part(o, k, s1, s2)] : o \in Orders, s1 \in Shapes, s2 \in Shapes}
Tables == {Lay(parts, 1) : parts \in Parts}

Usual == Lay([k \in 1..4 |-> Part(Front, k, "down", "none")], 1)
Full == [Usual EXCEPT !.revision = MaxRevision]
BadSum == [Usual EXCEPT !.sum = FALSE]
BadLength == [Usual EXCEPT !.length = @ + 4]

MCInputs == Tables \cup {Full, BadSum, BadLength}

=============================================================================
