---------------------------- MODULE SnippetIndex ----------------------------
(***************************************************************************)
(* The snippet index, core/indexing/CodeSnippetsIndex.ts: the tables       *)
(* code_snippets and code_snippets_tags and CodeSnippetsCodebaseIndex.     *)
(* update.  A snippet is one row for all branches, joined with its tags by *)
(* id.  Both computing and adding a tag parse the file and REPLACE its     *)
(* rows, and update does not wait for markComplete: the marks of an item   *)
(* come while the run goes on, or after it.                                *)
(***************************************************************************)
EXTENDS TagIndex, Sequences

CONSTANT MaxId  \* bound on the ids of code_snippets, for model checking only

ASSUME IdAssumption == MaxId \in Nat

VARIABLES
  snippets,     \* rows of code_snippets, by their id
  snippetTags,  \* rows of code_snippets_tags: <<id, branch>>
  parsed,       \* run -> the file being written (a set of one), what is left
  found,        \* run -> ids selected for deletion, with their item
  marking,      \* sequence of the calls of markComplete under way
  taken         \* history: <<version, branch>> whose rows another replaced

snippetTables == <<snippets, snippetTags>>
snippetMemory == <<parsed, found>>
snippetVars   == <<snippetTables, snippetMemory, marking, taken>>

(* update takes the lists in another order than the other indexes.         *)
Sooner(k, l) ==
  \/ k = "compute" /\ l # "compute"
  \/ k = "del" /\ l \in {"addTag", "removeTag"}
  \/ k = "addTag" /\ l = "removeTag"

Turn(r, o) ==
  /\ pc[r] = "update" /\ o \in batch[r]
  /\ parsed[r] = {} /\ found[r] = {}
  /\ \A q \in batch[r] : ~Sooner(q.kind, o.kind)

(* markComplete is called and not awaited.                                 *)
CallMark(r, o) ==
  /\ batch' = [batch EXCEPT ![r] = @ \ {o}]
  /\ marking' = Append(marking, [op |-> o, branch |-> tag[r], last |-> LastUpdated(r), half |-> FALSE])
  /\ UNCHANGED <<world, tables, pc, scope, plan, todo, marked>>

-----------------------------------------------------------------------------
(* Compute and add tag.                                                    *)

Parse(r, o) ==
  /\ Turn(r, o) /\ o.kind \in {"compute", "addTag"}
  /\ parsed' = [parsed EXCEPT ![r] =
       {[op |-> o, text |-> Text(o.path), next |-> 1, id |-> 0]}]
  /\ UNCHANGED <<vars, snippetTables, found, marking, taken>>

(* A new id is one more than the largest.                                  *)
NewId == 1 + CHOOSE n \in {0} \cup {x.id : x \in snippets} : \A x \in snippets : x.id <= n

SameContent(x, y) == SameFile(x, y) /\ x.text = y.text /\ x.idx = y.idx

(* REPLACE: a row of the same content goes, whatever tags refer to its id. *)
ReplaceSnippet(r) ==
  \E q \in parsed[r] :
    LET new == [id |-> NewId, path |-> q.op.path, key |-> q.op.key, text |-> q.text, idx |-> q.next]
        old == {x \in snippets : SameContent(x, new)}
    IN
    /\ q.id = 0 /\ q.next <= Parts[q.text] /\ NewId <= MaxId
    /\ snippets' = (snippets \ old) \cup {new}
    /\ parsed' = [parsed EXCEPT ![r] = {[q EXCEPT !.id = NewId]}]
    /\ taken' = taken \cup
         {<<ItemOf(q.op), b>> : b \in {c \in Branches \ {tag[r]} : \E x \in old : <<x.id, c>> \in snippetTags}}
    /\ UNCHANGED <<vars, snippetTags, found, marking>>

ReplaceTag(r) ==
  \E q \in parsed[r] :
    /\ q.id # 0
    /\ snippetTags' = snippetTags \cup {<<q.id, tag[r]>>}
    /\ parsed' = [parsed EXCEPT ![r] = {[q EXCEPT !.id = 0, !.next = @ + 1]}]
    /\ UNCHANGED <<vars, snippets, found, marking, taken>>

Written(r) ==
  \E q \in parsed[r] :
    /\ q.id = 0 /\ q.next > Parts[q.text]
    /\ CallMark(r, q.op)
    /\ parsed' = [parsed EXCEPT ![r] = {}]
    /\ UNCHANGED <<snippetTables, found, taken>>

-----------------------------------------------------------------------------
(* Delete and remove tag.                                                  *)

(* Bug: the snippets of all versions of the file are selected.             *)
IdsOfPath(o) == {x.id : x \in {y \in snippets : y.path = o.path}}

IdsOf(o) == {x.id : x \in {y \in snippets : SameFile(y, o)}}

DeleteSnippets(r, o) ==
  /\ Turn(r, o) /\ o.kind = "del"
  /\ found' = [found EXCEPT ![r] = {[op |-> o, ids |-> IdsOf(o)]}]
  /\ snippets' = {x \in snippets : x.id \notin IdsOf(o)}
  /\ UNCHANGED <<vars, snippetTags, parsed, marking, taken>>

DeleteSnippetTags(r) ==
  \E f \in found[r] :
    /\ snippetTags' = {t \in snippetTags : t[1] \notin f.ids}
    /\ found' = [found EXCEPT ![r] = {}]
    /\ CallMark(r, f.op)
    /\ UNCHANGED <<snippets, parsed, taken>>

(* db.get: one of the ids, in one branch.                                  *)
RemoveSnippetTag(r, o) ==
  /\ Turn(r, o) /\ o.kind = "removeTag"
  /\ \/ IdsOf(o) = {} /\ UNCHANGED snippetTags
     \/ \E i \in IdsOf(o) : snippetTags' = snippetTags \ {<<i, tag[r]>>}
  /\ CallMark(r, o)
  /\ UNCHANGED <<snippets, parsed, found, taken>>

-----------------------------------------------------------------------------
(* markComplete goes on by itself.  Calls may overlap, but each writes the *)
(* catalog and then the global cache in turn: the statements of all calls  *)
(* are the same in number, and go over one connection.                     *)

MarkRowLate(i) ==
  LET m == marking[i] IN
  /\ ~m.half /\ \A j \in 1 .. i - 1 : marking[j].half
  /\ catalog' = [catalog EXCEPT ![m.branch] = MarkRow(@, m.op, m.last)]
  /\ marking' = [marking EXCEPT ![i].half = TRUE]
  /\ UNCHANGED <<world, gcache, memory, snippetTables, snippetMemory, taken>>

MarkCacheLate ==
  LET m == Head(marking) IN
  /\ marking # <<>> /\ m.half
  /\ gcache' = MarkCache(gcache, m.op, m.branch)
  /\ marking' = Tail(marking)
  /\ UNCHANGED <<world, catalog, memory, snippetTables, snippetMemory, taken>>

-----------------------------------------------------------------------------
SnippetInit ==
  /\ snippets = {} /\ snippetTags = {} /\ marking = <<>> /\ taken = {}
  /\ parsed = [r \in Runs |-> {}] /\ found = [r \in Runs |-> {}]

SnippetStep(r) ==
  \/ Begin(r) /\ marking = <<>> /\ UNCHANGED snippetVars
  \/ (Planning(r) \/ Between(r) \/ Leaves(r)) /\ UNCHANGED snippetVars
  \/ ReplaceSnippet(r) \/ ReplaceTag(r) \/ Written(r) \/ DeleteSnippetTags(r)
  \/ \E o \in batch[r] : Parse(r, o) \/ DeleteSnippets(r, o) \/ RemoveSnippetTag(r, o)

(* The workspace changes between runs only, which come one by one.  Nothing *)
(* in the code waits for a mark, but none is taken to last until the next   *)
(* run, whose plan would then be made from a catalog without it.            *)
SnippetNext ==
  \/ World /\ Quiet /\ UNCHANGED snippetVars
  \/ \E r \in Runs : SnippetStep(r) /\ Alone(r)
  \/ \E i \in DOMAIN marking : MarkRowLate(i)
  \/ MarkCacheLate

SnippetSpec == Init /\ SnippetInit /\ [][SnippetNext]_<<vars, snippetVars>>

-----------------------------------------------------------------------------
(* What is shown of a file in a branch.                                    *)
Shown(b) == {x \in snippets : <<x.id, b>> \in snippetTags}

BeingMarked(x, b, kinds) ==
  \E i \in DOMAIN marking :
    marking[i].branch = b /\ marking[i].op.kind \in kinds /\ SameEntry(x, marking[i].op)

BeingWritten(x, b) == \E r \in Runs : tag[r] = b /\ \E q \in parsed[r] : SameEntry(x, q.op)

(* The snippets of a file that the catalog of a branch lists are shown in  *)
(* the branch, unless they are about to be removed or are being written    *)
(* again, or another branch has replaced them by its own: however late the *)
(* marks come, and although an update computes the new version of a file   *)
(* before it deletes the old one and ids are used again.                   *)
SnippetsAreShown ==
  \A b \in Branches : \A x \in catalog[b] :
    \/ <<ItemOf(x), b>> \in taken \/ BeingWritten(x, b)
    \/ Being(x, b, {"del", "removeTag"}) \/ BeingMarked(x, b, {"del", "removeTag"})
    \/ \A n \in 1 .. Parts[x.key] : \E s \in Shown(b) : SameFile(s, x) /\ s.idx = n

=============================================================================
