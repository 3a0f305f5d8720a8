---------------------------- MODULE HistorySearch ----------------------------
(***************************************************************************)
(* internal/rarimo/stateupdate.go: the loop of getGISTsOnBlock and of      *)
(* getStatesOnBlock.  The length of the history is read once and then page *)
(* after page, each by a call of its own, from the newest entry backwards. *)
(* Between two calls blocks are mined and reorganised, so no two answers   *)
(* need come from the same history.                                        *)
(*                                                                         *)
(* StateChangeListener takes a search in one step, by Lookup.  The         *)
(* invariant AsIfAtOnce is what allows that.                               *)
(***************************************************************************)
EXTENDS StateContract, StateUpdate

CONSTANT
  Failed    \* the outcome of a search that ends with a failed call

ASSUME SearchAssumption == Failed \notin Nat

VARIABLES
  pc,       \* "idle", "length", "page" or "done"
  tree,     \* the history searched
  block,    \* the block of the transition searched for
  length,   \* the variable length of the code: the next page starts here
  outcome,  \* a position, NotFound, or Failed
  seen      \* history: the searched history when its length was read

searchVars == <<pc, tree, block, length, outcome, seen>>
vars == <<chainVars, searchVars>>

\* GetGISTRootHistory and GetStateInfoHistoryById: the entries from contract
\* index start on, at most StatesPerRequest.  The contract reverts when asked
\* for nothing, and when start is not an index of the history.
Reverts(h, start) == StatesPerRequest = 0 \/ start >= Len(h)
Page(h, start) ==
  SubSeq(h, start + 1,
         IF start + StatesPerRequest =< Len(h) THEN start + StatesPerRequest
         ELSE Len(h))

\* GetGISTRootHistoryLength and GetStateInfoHistoryLengthById.
HistoryLength(t) == Len(hist[t])

\* (mutation: the block of the replaced entry is compared)
InPageReplaced(p, b) == {i \in 2 .. Len(p) : p[i - 1].block = b}

\* Where in a page the transitions made in block b is.
InPage(p, b) == {i \in 2 .. Len(p) : p[i].block = b}

-----------------------------------------------------------------------------
Init ==
  /\ ContractInit
  /\ pc = "idle" /\ tree = Gist /\ block = 0 /\ length = 0
  /\ outcome = NotFound /\ seen = <<>>

\* A log that is deep enough is handled: its block is searched for in the
\* GIST history or in the history of its issuer.
Begin ==
  /\ pc = "idle"
  /\ \E e \in FilterStateUpdated(0, final) :
       /\ tree' \in {Gist, e.id}
       /\ block' = e.block
  /\ pc' = "length"
  /\ UNCHANGED <<chainVars, length, outcome, seen>>

Finish(o) == pc' = "done" /\ outcome' = o

ReadLength ==
  /\ pc = "length"
  /\ seen' = hist[tree]
  /\ IF HistoryLength(tree) =< StatesPerRequest
     THEN Finish(NotFound) /\ UNCHANGED length
     ELSE /\ length' = HistoryLength(tree) - StatesPerRequest
          /\ pc' = "page"
          /\ UNCHANGED outcome
  /\ UNCHANGED <<chainVars, tree, block>>

\* (mutations: pages without overlap; the same page again; pages asked for down
\* to index 0; the last pages not asked for)
BackWholePage(start) == start - StatesPerRequest
BackNowhere(start) == start
OutOfPagesAtZero(start) == start < 0
OutOfPagesEarly(start) == start =< StatesPerRequest

\* The next page overlaps this one in one entry, which this page could not
\* tell the predecessor of.
Back(start) == start - (StatesPerRequest - 1)
OutOfPages(start) == start =< 1

ReadPage ==
  /\ pc = "page"
  /\ LET hits == InPage(Page(hist[tree], length), block)
     IN  \/ /\ Reverts(hist[tree], length)
            /\ Finish(Failed)
            /\ UNCHANGED length
         \/ /\ ~Reverts(hist[tree], length)
            /\ hits # {}
            /\ Finish(length + (CHOOSE i \in hits : \A j \in hits : i =< j))
            /\ UNCHANGED length
         \/ /\ ~Reverts(hist[tree], length)
            /\ hits = {}
            /\ length' = Back(length)
            /\ IF OutOfPages(Back(length)) THEN Finish(NotFound)
               ELSE UNCHANGED <<pc, outcome>>
  /\ UNCHANGED <<chainVars, tree, block, seen>>

\* Either call may fail; its error ends the search.
CallFails ==
  /\ pc \in {"length", "page"}
  /\ Finish(Failed)
  /\ UNCHANGED <<chainVars, tree, block, length, seen>>

\* The caller has used the outcome.
Reset ==
  /\ pc = "done"
  /\ pc' = "idle" /\ tree' = Gist /\ block' = 0 /\ length' = 0
  /\ outcome' = NotFound /\ seen' = <<>>
  /\ UNCHANGED chainVars

Chain == ContractNext /\ UNCHANGED searchVars

Next == Begin \/ ReadLength \/ ReadPage \/ CallFails \/ Reset \/ Chain

Spec == Init /\ [][Next]_vars

\* A search under way goes on: its calls come back.  That a call fails is not
\* what a search may wait for.
FairSpec == Spec /\ WF_vars(ReadLength \/ ReadPage)

-----------------------------------------------------------------------------
TypeOK ==
  /\ ChainTypeOK
  /\ pc \in {"idle", "length", "page", "done"}
  /\ tree \in Trees
  /\ block \in Nat
  /\ length \in Int
  /\ outcome \in Nat \union {Failed}
  /\ seen \in Seq(EntryOf(tree))

\* A search that no call failed returns what one look at the history, taken
\* when its length was read, would have returned: entries appended or
\* reorganised away between the pages change nothing, because the block
\* searched for is final.
AsIfAtOnce ==
  pc = "done" /\ outcome # Failed => outcome = Lookup(seen, block)

\* The pair a search returns is the transition asked for, in the history as it
\* is now and not only as it was when the page was read.
FoundIsThere ==
  pc = "done" /\ outcome \notin {NotFound, Failed} =>
    /\ outcome \in 2 .. Len(hist[tree])
    /\ hist[tree][outcome].block = block

\* Every page asked for lies within the history whose length was read, from
\* contract index 1 on: the entry at index 0 replaced nothing.
PagesInBounds ==
  pc = "page" => length \in 1 .. Len(seen) - StatesPerRequest

\* A search that ends with nothing has looked at every transition but those
\* among the StatesPerRequest + 1 oldest entries.
MissesOnlyTheOldest ==
  pc = "done" /\ outcome = NotFound =>
    \A k \in StatesPerRequest + 2 .. Len(seen) : seen[k].block # block

\* Every search returns: the pages run out.
SearchesEnd == (pc = "length") ~> (pc = "done")
=============================================================================
