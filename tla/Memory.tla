------------------------------- MODULE Memory -------------------------------
(***************************************************************************)
(* Long-term memories: MemoryService over the key-value store, the tools   *)
(* and REST handlers that call it, and the settings page that lists them.  *)
(*                                                                         *)
(* A memory is a record and an entry in the index of its scope, written    *)
(* and removed by separate transactions of the store; the service holds no *)
(* lock between them.  Every transaction of a request is a step.  agentd   *)
(* may be killed between two of them; records and index survive.           *)
(***************************************************************************)
EXTENDS Integers, Sequences, FiniteSets

CONSTANTS
  Requests,       \* requests agentd serves at a time
  WriteScopes,    \* scopes memories are written to
  Contents,       \* texts, spelled two ways
  ScopeCap,       \* PER_SCOPE_CAP
  SearchLimit,    \* how many memories a search returns
  MaxMemories,    \* bound: records ever made
  MaxMemOps,      \* bound: requests
  MaxMemCrashes   \* bound: times agentd is killed

MemoryScopes == <<"global", "workspace", "session">>
ScopeSet == {MemoryScopes[i] : i \in DOMAIN MemoryScopes}

ASSUME MemoryAssumption ==
  /\ WriteScopes \subseteq ScopeSet
  /\ ScopeCap \in Nat \ {0} /\ SearchLimit \in Nat \ {0}
  /\ MaxMemories \in Nat /\ MaxMemOps \in Nat /\ MaxMemCrashes \in Nat

VARIABLES
  memRec,     \* the records: a function from ids, <<>> where there is none
  memIdx,     \* the index: scope -> ids
  memTask,    \* request -> where it is
  memClock,   \* now_ts
  memNew,     \* ids ever made
  memShown,   \* the settings page: <<>> until loaded, then the ids it lists
  memLists,   \* answers on their way to the page
  memTold,    \* ids a finished request reported as written
  memGone,    \* ids a finished request reported as deleted
  memMarked,  \* ids a deletion or an eviction has taken out of the index
  memBack,    \* whether a save brought back a record that had been removed
  memOps, memCrashes

memVars == <<memRec, memIdx, memTask, memClock, memNew, memShown, memLists, memTold, memGone,
             memMarked, memBack, memOps, memCrashes>>
memStore == <<memRec, memIdx>>
memPage == <<memShown, memLists>>
memSaid == <<memTold, memGone, memMarked>>

MemIds == 1 .. MaxMemories

(* normalize_content: case and spacing do not count.                       *)
NormalizeContent(c) == c[1]

MemIdle == [op |-> "none", pc |-> "idle", id |-> 0, scope |-> "global", content |-> <<>>,
            ids |-> {}, rec |-> <<>>, todo |-> <<>>, found |-> {}, known |-> {}, fresh |-> FALSE,
            told |-> 0]

MemInit ==
  /\ memRec = [i \in MemIds |-> <<>>]
  /\ memIdx = [s \in ScopeSet |-> {}]
  /\ memTask = [r \in Requests |-> MemIdle]
  /\ memClock = 0 /\ memNew = 0
  /\ memShown = <<>> /\ memLists = {}
  /\ memTold = {} /\ memGone = {} /\ memMarked = {} /\ memBack = FALSE
  /\ memOps = 0 /\ memCrashes = 0

MemAt(r, pc) == memTask[r].pc = pc
MemTo(r, t) == memTask' = [memTask EXCEPT ![r] = t]
MemStart(r, t) ==
  /\ MemAt(r, "idle")
  /\ memOps < MaxMemOps /\ memOps' = memOps + 1
  /\ MemTo(r, t)
  /\ UNCHANGED <<memStore, memClock, memNew, memLists, memSaid, memBack, memCrashes>>
MemRead(r, t) ==
  /\ MemTo(r, t)
  /\ UNCHANGED <<memStore, memClock, memNew, memPage, memSaid, memBack, memOps, memCrashes>>

-----------------------------------------------------------------------------
(* Requests: memory_write and POST /memories, PATCH, memory_search and the *)
(* lines for a prompt, memory_delete and DELETE, GET /memories.            *)

MemoryWrite(r, scope, c) ==
  MemStart(r, [MemIdle EXCEPT !.op = "upsert", !.pc = "ids", !.scope = scope, !.content = c])
  /\ UNCHANGED memShown
PatchMemory(r, id, c) ==
  MemStart(r, [MemIdle EXCEPT !.op = "patch", !.pc = "get", !.id = id, !.content = c])
  /\ UNCHANGED memShown
MemorySearch(r, c) ==
  MemStart(r, [MemIdle EXCEPT !.op = "search", !.pc = "ids", !.scope = MemoryScopes[1],
                              !.content = c, !.known = memGone])
  /\ UNCHANGED memShown
MemoryDelete(r, id) ==
  MemStart(r, [MemIdle EXCEPT !.op = "delete", !.pc = "get", !.id = id])
  /\ UNCHANGED memShown
(* The page asks when it is drawn and nothing is loaded yet ...            *)
LoadMemories(r) ==
  /\ memShown = <<>>
  /\ MemStart(r, [MemIdle EXCEPT !.op = "list", !.pc = "all"])
  /\ UNCHANGED memShown
(* ... and takes an entry off the list before agentd is asked to.          *)
DeleteMemoryEntry(r, id) ==
  /\ memShown # <<>> /\ id \in memShown[1]
  /\ MemStart(r, [MemIdle EXCEPT !.op = "delete", !.pc = "get", !.id = id])
  /\ memShown' = <<memShown[1] \ {id}>>

-----------------------------------------------------------------------------
(* list_by_scope: the ids of the index, then their records; a scope with   *)
(* no index entry is looked for in all records.                            *)

ListIds(r) ==
  /\ MemAt(r, "ids") \/ MemAt(r, "capIds")
  /\ MemRead(r, [memTask[r] EXCEPT !.pc = IF @ = "ids" THEN "recs" ELSE "capRecs",
                                   !.ids = memIdx[memTask[r].scope]])
InScope(t) ==
  LET ids == IF t.ids = {} THEN {i \in MemIds : memRec[i] # <<>> /\ memRec[i][1].scope = t.scope}
             ELSE {i \in t.ids : memRec[i] # <<>>}
  IN  ids
Rec(i) == memRec[i][1]

(* sort_by: the elements of S, each at the place that the number of those  *)
(* ahead of it gives it.                                                   *)
Listed(S, ahead) ==
  [k \in 1 .. Cardinality(S) |-> CHOOSE x \in S : Cardinality(ahead[x]) = k - 1]

(* upsert: the newest record with the same text is refreshed, or a new one *)
(* is made.                                                                *)
Same(t) == {i \in InScope(t) : NormalizeContent(Rec(i).content) = NormalizeContent(t.content)}
UpsertRecs(r) ==
  /\ MemAt(r, "recs") /\ memTask[r].op = "upsert"
  /\ LET t == memTask[r]
     IN  IF Same(t) # {}
           THEN LET i == CHOOSE i \in Same(t) : \A j \in Same(t) : Rec(j).time <= Rec(i).time
                IN  /\ MemTo(r, [t EXCEPT !.pc = "put", !.id = i, !.told = i, !.ids = {},
                                          !.rec = <<[Rec(i) EXCEPT !.content = t.content,
                                                                   !.time = memClock + 1]>>])
                    /\ UNCHANGED memNew
           ELSE /\ memNew < MaxMemories
                /\ memNew' = memNew + 1
                /\ MemTo(r, [t EXCEPT !.pc = "put", !.id = memNew + 1, !.told = memNew + 1,
                                      !.ids = {}, !.fresh = TRUE,
                                      !.rec = <<[scope |-> t.scope, content |-> t.content,
                                                 hits |-> 0, time |-> memClock + 1]>>])
  /\ memClock' = memClock + 1
  /\ UNCHANGED <<memStore, memPage, memSaid, memBack, memOps, memCrashes>>

(* save: the record, then the index.                                       *)
SavePut(r) ==
  /\ MemAt(r, "put")
  /\ memRec' = [memRec EXCEPT ![memTask[r].id] = memTask[r].rec]
  /\ memBack' = (memBack \/ (~memTask[r].fresh /\ memRec[memTask[r].id] = <<>>))
  /\ MemTo(r, [memTask[r] EXCEPT !.pc = "index"])
  /\ UNCHANGED <<memIdx, memClock, memNew, memPage, memSaid, memOps, memCrashes>>
\* A plausible slip: the record is written and its scope is not told.
SaveIndexSkipped(r) ==
  /\ MemAt(r, "index")
  /\ MemTo(r, [memTask[r] EXCEPT !.pc = "done"])
  /\ UNCHANGED <<memStore, memClock, memNew, memPage, memSaid, memBack, memOps, memCrashes>>
SaveIndex(r) ==
  /\ MemAt(r, "index")
  /\ memIdx' = [memIdx EXCEPT ![memTask[r].rec[1].scope] = @ \cup {memTask[r].id}]
  /\ MemTo(r, [memTask[r] EXCEPT !.pc = IF memTask[r].fresh THEN "capIds" ELSE "done",
                                 !.rec = <<>>])
  /\ UNCHANGED <<memRec, memClock, memNew, memPage, memSaid, memBack, memOps, memCrashes>>

(* enforce_capacity: the fewest hits go first, then the oldest.            *)
Weaker(i, j) ==
  \/ Rec(i).hits < Rec(j).hits
  \/ Rec(i).hits = Rec(j).hits /\ Rec(i).time < Rec(j).time
\* A plausible slip: one entry too many is kept.
ExcessOneLess(n) == IF n <= ScopeCap + 1 THEN 0 ELSE n - ScopeCap - 1
Excess(n) == IF n <= ScopeCap THEN 0 ELSE n - ScopeCap
EnforceCapacity(r) ==
  /\ MemAt(r, "capRecs")
  /\ LET here == InScope(memTask[r])
         out == SubSeq(Listed(here, [i \in here |-> {j \in here : Weaker(j, i)}]),
                       1, Excess(Cardinality(here)))
     IN  MemRead(r, [memTask[r] EXCEPT !.pc = IF out = <<>> THEN "done" ELSE "get",
                                       !.ids = {}, !.todo = out,
                                       !.id = IF out = <<>> THEN @ ELSE Head(out)])

(* get: an id that is gone ends a delete or a patch with an error, and is  *)
(* skipped by an eviction and by the count of hits.                        *)
Skip(t) ==
  IF Len(t.todo) > 1 THEN [t EXCEPT !.pc = "get", !.todo = Tail(@), !.id = t.todo[2]]
  ELSE [t EXCEPT !.pc = "done", !.todo = <<>>]
MemGet(r) ==
  /\ MemAt(r, "get")
  /\ LET t == memTask[r]
         gone == memRec[t.id] = <<>>
     IN  /\ t.op = "patch" => gone
         /\ MemRead(r, CASE gone /\ t.op \in {"delete", "patch"} -> MemIdle
                      [] gone /\ t.op \notin {"delete", "patch"} -> Skip(t)
                      [] ~gone /\ t.op \in {"delete", "upsert"} ->
                           [t EXCEPT !.pc = "unindex", !.rec = memRec[t.id]]
                      [] OTHER ->
                           [t EXCEPT !.pc = "hit", !.rec = <<[Rec(t.id) EXCEPT !.hits = @ + 1]>>])

(* patch_memory: the new text and the time go into the record that was     *)
(* read.                                                                   *)
PatchGet(r) ==
  /\ MemAt(r, "get") /\ memTask[r].op = "patch" /\ memRec[memTask[r].id] # <<>>
  /\ memClock' = memClock + 1
  /\ MemTo(r, [memTask[r] EXCEPT !.pc = "put",
                                 !.rec = <<[Rec(memTask[r].id) EXCEPT !.content = memTask[r].content,
                                                                      !.time = memClock + 1]>>])
  /\ UNCHANGED <<memStore, memNew, memPage, memSaid, memBack, memOps, memCrashes>>

(* delete: out of the index, then the record.                              *)
Unindex(r) ==
  /\ MemAt(r, "unindex")
  /\ memIdx' = [memIdx EXCEPT ![memTask[r].rec[1].scope] = @ \ {memTask[r].id}]
  /\ memMarked' = memMarked \cup {memTask[r].id}
  /\ MemTo(r, [memTask[r] EXCEPT !.pc = "erase"])
  /\ UNCHANGED <<memRec, memClock, memNew, memPage, memTold, memGone, memBack, memOps, memCrashes>>
Erase(r) ==
  /\ MemAt(r, "erase")
  /\ memRec' = [memRec EXCEPT ![memTask[r].id] = <<>>]
  /\ MemTo(r, IF memTask[r].op = "delete" THEN [memTask[r] EXCEPT !.pc = "done"]
              ELSE Skip([memTask[r] EXCEPT !.rec = <<>>]))
  /\ UNCHANGED <<memIdx, memClock, memNew, memPage, memSaid, memBack, memOps, memCrashes>>

(* search: scope after scope, the matches are counted one by one.          *)
Found(t) == {[id |-> i, hits |-> Rec(i).hits, time |-> Rec(i).time] : i \in Same(t)}
Better(a, b) == a.hits > b.hits \/ (a.hits = b.hits /\ a.time > b.time)
SearchRecs(r) ==
  /\ MemAt(r, "recs") /\ memTask[r].op = "search"
  /\ LET t == memTask[r]
         k == CHOOSE n \in DOMAIN MemoryScopes : MemoryScopes[n] = t.scope
         all == t.found \cup Found(t)
         best == Listed(all, [m \in all |-> {n \in all : Better(n, m)}])
         top == SubSeq(best, 1, IF Len(best) < SearchLimit THEN Len(best) ELSE SearchLimit)
     IN  MemRead(r, IF k < Len(MemoryScopes)
                      THEN [t EXCEPT !.pc = "ids", !.ids = {}, !.scope = MemoryScopes[k + 1],
                                     !.found = all]
                    ELSE IF top = <<>> THEN [t EXCEPT !.pc = "done", !.ids = {}, !.found = {}]
                    ELSE [t EXCEPT !.pc = "get", !.ids = {}, !.id = Head(top).id,
                                   !.todo = [n \in DOMAIN top |-> top[n].id],
                                   !.found = {top[n] : n \in DOMAIN top}])
(* The count goes back with a put of the record alone.                     *)
CountHit(r) ==
  /\ MemAt(r, "hit")
  /\ memRec' = [memRec EXCEPT ![memTask[r].id] = memTask[r].rec]
  /\ memBack' = (memBack \/ memRec[memTask[r].id] = <<>>)
  /\ MemTo(r, Skip([memTask[r] EXCEPT !.rec = <<>>]))
  /\ UNCHANGED <<memIdx, memClock, memNew, memPage, memSaid, memOps, memCrashes>>

(* The answer.  A search answers with what it found.                       *)
MemDone(r) ==
  /\ MemAt(r, "done")
  /\ LET t == memTask[r]
     IN  /\ memTold' = IF t.op = "upsert" THEN memTold \cup {t.told} ELSE memTold
         /\ memGone' = IF t.op = "delete" THEN memGone \cup {t.id} ELSE memGone
  /\ MemTo(r, MemIdle)
  /\ UNCHANGED <<memStore, memClock, memNew, memPage, memMarked, memBack, memOps, memCrashes>>

ListAll(r) ==
  /\ MemAt(r, "all")
  /\ memLists' = memLists \cup {{i \in MemIds : memRec[i] # <<>>}}
  /\ MemTo(r, MemIdle)
  /\ UNCHANGED <<memStore, memClock, memNew, memShown, memSaid, memBack, memOps, memCrashes>>
OnMemoriesLoaded ==
  /\ \E l \in memLists : memShown' = <<l>> /\ memLists' = memLists \ {l}
  /\ UNCHANGED <<memStore, memTask, memClock, memNew, memSaid, memBack, memOps, memCrashes>>

(* agentd is killed: its requests are gone, the store is as it was.        *)
MemCrash ==
  /\ memCrashes < MaxMemCrashes
  /\ memCrashes' = memCrashes + 1
  /\ memTask' = [r \in Requests |-> MemIdle]
  /\ UNCHANGED <<memStore, memClock, memNew, memPage, memSaid, memBack, memOps>>

MemNext ==
  \/ \E r \in Requests :
       \/ \E c \in Contents :
            \/ MemorySearch(r, c)
            \/ \E s \in WriteScopes : MemoryWrite(r, s, c)
            \/ \E id \in 1 .. memNew : PatchMemory(r, id, c)
       \/ \E id \in 1 .. memNew : MemoryDelete(r, id) \/ DeleteMemoryEntry(r, id)
       \/ LoadMemories(r) \/ ListIds(r) \/ UpsertRecs(r) \/ SavePut(r) \/ SaveIndex(r)
       \/ EnforceCapacity(r) \/ MemGet(r) \/ PatchGet(r) \/ Unindex(r) \/ Erase(r) \/ SearchRecs(r)
       \/ CountHit(r) \/ MemDone(r) \/ ListAll(r)
  \/ OnMemoriesLoaded
  \/ MemCrash

MemSpec == MemInit /\ [][MemNext]_memVars

-----------------------------------------------------------------------------
MemTypeOK ==
  /\ \A i \in MemIds : memRec[i] = <<>> \/ Rec(i) \in [scope: ScopeSet, content: Contents,
                                                      hits: Nat, time: 1 .. memClock]
  /\ memIdx \in [ScopeSet -> SUBSET (1 .. memNew)]
  /\ \A i \in MemIds : memRec[i] # <<>> => i <= memNew


(* A memory that was reported as written, and that nobody removes, is      *)
(* found by the scope it was written to, also while other requests and a   *)
(* crash leave half-written ones (upsert, save, list_by_scope).            *)
WrittenIsFound ==
  \A i \in memTold : i \notin memMarked => memRec[i] # <<>> /\ i \in memIdx[Rec(i).scope]

(* When nothing is under way, a scope lists no more than its cap, however  *)
(* the writes and evictions before overlapped, unless one was cut off by a *)
(* crash or brought a removed record back (enforce_capacity).              *)
CapHolds ==
  (\A r \in Requests : memTask[r].pc = "idle") /\ memCrashes = 0 /\ ~memBack
     => \A s \in ScopeSet : Cardinality({i \in memIdx[s] : memRec[i] # <<>>}) <= ScopeCap

(* The settings page says that a deleted memory is not used any more.  It  *)
(* does not hold: a search that counts a hit, or an edit, writes the       *)
(* record back when the deletion falls between its read and its write, and *)
(* with an empty index a search finds it (search, patch_memory).           *)
DeletedNotUsed ==
  \A r \in Requests : memTask[r].op = "search" /\ memTask[r].pc = "done"
     => \A m \in memTask[r].found : m.id \notin memTask[r].known

(* Memories as a whole: types, what was reported as written is found, and a*)
(* scope keeps to its cap (upsert, list_by_scope, enforce_capacity).       *)
MemoriesKept == MemTypeOK /\ WrittenIsFound /\ CapHolds
=============================================================================
