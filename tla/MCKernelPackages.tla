--------------------------- MODULE MCKernelPackages ---------------------------
(* Two parts that share only the commit they look at, one behaviour of either *)
(* at a time: the choice of the versions, and a run of the workflow over two  *)
(* kernel lines, the older with two variants and the newer with one.          *)
EXTENDS KernelWorkflow

MCSeedOf == [l \in {618, 702} |-> IF l = 618 THEN 617 ELSE 700]

MCRows == {[line |-> 618, variant |-> "a"], [line |-> 618, variant |-> "b"], [line |-> 702, variant |-> "a"]}

MCPaths == {<<"Makefile">>, <<"include", "mode">>, <<"include", "config", "auto">>, <<"alias">>}
MCPrivate == {<<"include", "config", "auto">>}

\* A file that is the same everywhere, one with other permissions in one
\* variant, one that may not be shared, and a link that one variant has not.
MCTree ==
  [r \in MCRows |-> [p \in MCPaths |->
     CASE p = <<"alias">> ->
            IF r.variant = "a" THEN Absent ELSE [type |-> "link", mode |-> 7, content |-> "test.h"]
       [] p = <<"include", "mode">> /\ r.variant = "a" -> [type |-> "file", mode |-> 6, content |-> r.line]
       [] OTHER -> [type |-> "file", mode |-> 4, content |-> r.line]]]

VARIABLES part, ebuilds, stray, upstream, retained, refreshed, matrix, verdict

\* A name without a revision, and one with the revision written out.
Plain(line, patch) == [line |-> line, patch |-> patch, rev |-> 0, dashed |-> FALSE]
Revised(line, patch, rev) == [line |-> line, patch |-> patch, rev |-> rev, dashed |-> TRUE]
MCNames ==
  {Plain(618, 1), Revised(618, 1, 0), Revised(618, 1, 1), Plain(618, 2),
   Plain(702, 1), Plain(617, 3), Plain(703, 1)}

Versions == INSTANCE SourceVersions WITH
  Names <- MCNames, First <- 618, Declared <- Lines, Required <- Lines,
  MaxEbuilds <- 3, MaxUpstream <- 3, Nothing <- None

versionVars == <<ebuilds, stray, upstream, retained, refreshed, matrix, verdict>>
partVars == <<part, vars, versionVars>>

\* The part that does not run stays as it is.
NoVersions == ebuilds = {} /\ stray = FALSE /\ upstream = {} /\ retained = {}
              /\ refreshed = {} /\ matrix = None /\ verdict = "none"
NoWorkflow ==
  /\ event = "push" /\ accepted = FALSE /\ refuses = FALSE
  /\ status = [j \in Jobs |-> "skipped"] /\ attempt = 1
  /\ inputs = None /\ configs = [s \in Seeds |-> None]
  /\ built = [r \in Rows |-> <<>>] /\ debs = None
  /\ cleaning = FALSE /\ torn = FALSE /\ leftover = FALSE /\ draft = [r \in Rows |-> None]
  /\ expired = FALSE /\ incidents = 0 /\ retries = 0

PartsInit ==
  \/ part = "versions" /\ Versions!Init /\ NoWorkflow
  \/ part = "workflow" /\ Init /\ NoVersions

PartsStep == part = "workflow" /\ Step /\ UNCHANGED <<part, versionVars>>
Repeat == part = "workflow" /\ RerunAll /\ UNCHANGED <<part, versionVars>>

PartsNext ==
  \/ part = "versions" /\ Versions!Next /\ UNCHANGED <<part, vars>>
  \/ part = "workflow" /\ Next /\ UNCHANGED <<part, versionVars>>

PartsSpec == PartsInit /\ [][PartsNext]_partVars /\ WF_partVars(PartsStep) /\ WF_partVars(Repeat)

\* SourceVersions!SelectionsAgree, in the part that chooses versions.
SelectionsAgree == part = "versions" => Versions!TypeOK /\ Versions!SelectionsAgree

=============================================================================
