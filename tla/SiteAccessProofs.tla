-------------------------- MODULE SiteAccessProofs --------------------------
(***************************************************************************)
(* Proofs about SiteAccess for any number of origins, players, documents   *)
(* and pages, and for every bound: the type invariant, that the registered *)
(* scripts follow the grants, that prompts do not pile up, and that a page *)
(* is told of its change only when the change is there.                    *)
(***************************************************************************)
EXTENDS SiteAccess, TLAPS

-----------------------------------------------------------------------------
(* Types                                                                   *)

Syncs == [step : {"idle", "list", "unregister", "register"},
          owner : Owners, matches : SUBSET Origins]
Askings == [doc : Docs, origin : Players, covered : BOOLEAN]
PageStates == [step : {"idle", "asking", "syncing", "done", "failed"},
               kind : {"none", "grant", "revoke"},
               patterns : SUBSET Origins, kept : SUBSET Origins]

\* A stopped worker has nothing in memory.
Forgotten == ~alive => chain = <<>> /\ sync = Idle /\ calls = {} /\ prompts = {}

TypeInv == TypeOK /\ Forgotten

LEMMA IdleType == Idle \in Syncs
  BY DEF Idle, Syncs, Owners

LEMMA KeptType ==
  ASSUME page \in [Pages -> PageStates], NEW a, NEW z
  PROVE  Kept(a, z) \in [Pages -> PageStates]
  BY DEF Kept, PageStates

LEMMA ApplyingType ==
  ASSUME page \in [Pages -> PageStates], NEW p \in Pages, NEW r \in PageStates,
         granted' = granted'
  PROVE  Applying(p, r) \in [Pages -> PageStates]
  BY KeptType DEF Applying, PageStates

\* A page's state with another step is that state otherwise.
LEMMA RecordStep ==
  ASSUME NEW r \in PageStates, NEW s \in {"idle", "asking", "syncing", "done", "failed"}
  PROVE  /\ [r EXCEPT !.step = s] \in PageStates
         /\ [r EXCEPT !.step = s].step = s
         /\ [r EXCEPT !.step = s].kind = r.kind
         /\ [r EXCEPT !.step = s].kept = r.kept
  BY DEF PageStates

\* The end of a synchronization keeps the types, and answers only the page that waits for it.
LEMMA EndType ==
  ASSUME NEW ok \in BOOLEAN, page \in [Pages -> PageStates], waiting \subseteq AllPrompts,
         SyncEnds(ok)
  PROVE  /\ sync' = Idle /\ sync' \in Syncs
         /\ failed' = ~ok
         /\ page' \in [Pages -> PageStates]
         /\ waiting' \subseteq AllPrompts
         /\ \A p \in Pages : page'[p] # page[p] =>
              /\ sync.owner[1] = "page" /\ sync.owner[2] = p
              /\ page'[p].step = IF ok THEN "done" ELSE "failed"
              /\ page'[p].kind = page[p].kind /\ page'[p].kept = page[p].kept
<1> DEFINE answer == IF ok THEN "done" ELSE "failed"
           x == sync.owner[2]
<1>1. answer \in {"idle", "asking", "syncing", "done", "failed"}  OBVIOUS
<1>2. waiting' \subseteq AllPrompts
  BY DEF SyncEnds, Answered
<1>3. CASE sync.owner[1] = "page"
  <2>1. page' = [page EXCEPT ![x].step = answer]
    BY <1>3 DEF SyncEnds, Answered
  <2> HIDE DEF answer, x
  <2>2. PICK r : r = [page[x] EXCEPT !.step = answer]  OBVIOUS
  <2>3. page' = [page EXCEPT ![x] = r]
    BY <2>1, <2>2, Zenon
  <2>4. x \in Pages => page[x] \in PageStates  OBVIOUS
  <2>5. x \in Pages => /\ r \in PageStates /\ r.step = answer
                       /\ r.kind = page[x].kind /\ r.kept = page[x].kept
    BY <2>2, <2>4, <1>1, RecordStep, Zenon
  <2>6. /\ page' \in [Pages -> PageStates]
        /\ \A p \in Pages :
             /\ p # x => page'[p] = page[p]
             /\ p = x => page'[p].step = answer /\ page'[p].kind = page[p].kind
                         /\ page'[p].kept = page[p].kept
    BY <2>3, <2>5
  <2> USE DEF answer, x
  <2> QED  BY <2>6, <1>2, <1>3, IdleType DEF SyncEnds
<1>4. CASE sync.owner[1] # "page"
  <2>1. page' = page
    BY <1>4 DEF SyncEnds, Answered
  <2> QED  BY <2>1, <1>2, IdleType DEF SyncEnds
<1> QED  BY <1>3, <1>4

LEMMA TypeInit == Init => TypeInv
<1> SUFFICES ASSUME Init PROVE TypeInv  OBVIOUS
<1> USE DEF Init
<1>1. chain \in Seq(Owners) /\ Len(chain) <= MaxQueue + 1
  BY SiteAccessAssumption DEF Owners
<1>2. sync \in Syncs
  BY IdleType
<1>3. page \in [Pages -> PageStates]
  BY DEF Resting, PageStates
<1>4. promptedAt \in [Players -> Times] /\ pending \in [Players -> Times]
  BY DEF Times
<1>5. events \in 0..(MaxQueue + 1) /\ now \in 0..MaxTime
  /\ fails \in 0..MaxFails /\ stops \in 0..MaxStops /\ outside \in 0..MaxOutside
  BY SiteAccessAssumption
<1> QED
  BY <1>1, <1>2, <1>3, <1>4, <1>5 DEF TypeInv, TypeOK, Forgotten, Syncs, PageStates

LEMMA Bounds ==
  /\ MaxQueue \in Nat /\ MaxTime \in Nat /\ MaxFails \in Nat
  /\ MaxStops \in Nat /\ MaxOutside \in Nat
  BY SiteAccessAssumption

\* Every step keeps the types; the change of a grant is followed by room for its event.
LEMMA TypeStep == TypeInv /\ [Next]_vars => TypeInv'
<1> SUFFICES ASSUME TypeInv, [Next]_vars PROVE TypeInv'
  OBVIOUS
<1> USE Bounds
<1> DEFINE Numbers == /\ events \in 0..(MaxQueue + 1) /\ now \in 0..MaxTime
                      /\ fails \in 0..MaxFails /\ stops \in 0..MaxStops
                      /\ outside \in 0..MaxOutside
           Grants == granted \subseteq Origins /\ registered \subseteq Origins
           Flags == alive \in BOOLEAN /\ failed \in BOOLEAN
           Queue == chain \in Seq(Owners) /\ Len(chain) <= MaxQueue + 1 /\ sync \in Syncs
           Asking0 == calls \subseteq Askings /\ prompts \subseteq AllPrompts
                      /\ waiting \subseteq AllPrompts
           Memory == promptedAt \in [Players -> Times] /\ pending \in [Players -> Times]
           Paging == page \in [Pages -> PageStates]
<1>t. Numbers /\ Grants /\ Flags /\ Queue /\ Asking0 /\ Memory /\ Paging
  BY DEF TypeInv, TypeOK, Syncs, Askings, PageStates
<1>f. Forgotten
  BY DEF TypeInv
<1>q. ASSUME Numbers', Grants', Flags', Queue', Asking0', Memory', Paging', Forgotten'
      PROVE  TypeInv'
  BY <1>q DEF TypeInv, TypeOK, Syncs, Askings, PageStates
<1>1. CASE SyncStarts
  <2>1. Head(chain) \in Owners /\ Tail(chain) \in Seq(Owners) /\ Len(Tail(chain)) <= Len(chain)
    BY <1>t, <1>1 DEF SyncStarts
  <2>2. sync' \in Syncs
    BY <1>t, <1>1, <2>1 DEF SyncStarts, Running, Syncs
  <2>3. Forgotten'
    BY <1>1 DEF SyncStarts, Forgotten
  <2>4. Queue'
    BY <1>t, <1>1, <2>1, <2>2 DEF SyncStarts
  <2>5. UNCHANGED <<registered, failed, fails, grants, asking, alive, now, page, stops>>
    BY <1>1 DEF SyncStarts
  <2> QED
    BY <1>t, <1>q, <2>3, <2>4, <2>5 DEF grants, asking
<1>2. CASE SyncLists
  <2>1. UNCHANGED <<registered, chain, fails, grants, calls, prompts, promptedAt, pending, alive, now,
                    stops>>
    BY <1>2 DEF SyncLists
  <2>2. CASE SyncEnds(TRUE)
    BY <1>t, <1>f, <1>q, <2>1, <2>2, EndType DEF grants, Forgotten
  <2>3. CASE \E s \in {"register", "unregister"} :
               sync' = [sync EXCEPT !.step = s] /\ UNCHANGED <<failed, page, waiting>>
    <3>1. sync' \in Syncs
      BY <1>t, <2>3 DEF Syncs
    <3>2. alive
      BY <1>2, <1>f DEF SyncLists, Forgotten, Idle
    <3> QED  BY <1>t, <3>2, <1>q, <2>1, <2>3, <3>1 DEF grants, Forgotten
  <2> QED  BY <1>2, <2>2, <2>3 DEF SyncLists
<1>3. CASE SyncUnregisters
  <2>1. UNCHANGED <<chain, fails, grants, calls, prompts, promptedAt, pending, alive, now, stops>>
        /\ registered' = {}
    BY <1>3 DEF SyncUnregisters
  <2>2. CASE SyncEnds(TRUE)
    BY <1>t, <1>f, <1>q, <2>1, <2>2, EndType DEF grants, Forgotten
  <2>3. CASE sync' = [sync EXCEPT !.step = "register"] /\ UNCHANGED <<failed, page, waiting>>
    <3>1. sync' \in Syncs
      BY <1>t, <2>3 DEF Syncs
    <3>2. alive
      BY <1>3, <1>f DEF SyncUnregisters, Forgotten, Idle
    <3> QED  BY <1>t, <3>2, <1>q, <2>1, <2>3, <3>1 DEF grants, Forgotten
  <2> QED  BY <1>3, <2>2, <2>3 DEF SyncUnregisters
<1>4. CASE SyncRegisters
  <2>1. SyncEnds(TRUE) /\ registered' \subseteq Origins
    BY <1>t, <1>4 DEF SyncRegisters, Syncs
  <2> QED  BY <1>t, <1>f, <1>q, <1>4, <2>1, EndType DEF SyncRegisters, grants, Forgotten
<1>5. CASE SyncFails
  <2>1. SyncEnds(FALSE)
    BY <1>5 DEF SyncFails
  <2>3. fails' \in 0..MaxFails
    <3>1. fails' = fails + 1 /\ fails < MaxFails
      BY <1>5 DEF SyncFails
    <3> QED  BY <1>t, <3>1
  <2>2. UNCHANGED <<registered, chain, grants, calls, prompts, promptedAt, pending, alive, now,
                    stops>>
    BY <1>5 DEF SyncFails
  <2> QED  BY <1>t, <1>f, <1>q, <2>1, <2>2, <2>3, EndType DEF grants, Forgotten
<1>6. CASE PermissionEvent
  <2>1. chain' \in Seq(Owners) /\ Len(chain') <= MaxQueue + 1
    BY <1>t, <1>6 DEF PermissionEvent, Enqueue, Owners
  <2> QED  BY <1>t, <1>q, <1>6, <2>1 DEF PermissionEvent, asking, Forgotten
<1>7. ASSUME NEW d \in Docs, NEW o \in Players, Report(d, o)
      PROVE  TypeInv'
  <2> DEFINE covered == o \in granted
             asked == [doc |-> d, origin |-> o, covered |-> covered]
  <2>1. covered \in BOOLEAN
    OBVIOUS
  <2>4. calls' = calls \cup {asked}
    BY <1>7 DEF Report
  <2> HIDE DEF covered
  <2>5. asked \in Askings
    BY <2>1 DEF Askings
  <2> HIDE DEF asked
  <2>2. calls' \subseteq Askings
    BY <1>t, <2>4, <2>5
  <2>3. UNCHANGED <<grants, syncing, prompts, promptedAt, pending, waiting, alive, now, page, stops>>
        /\ alive
    BY <1>7 DEF Report
  <2> QED  BY <1>t, <1>q, <2>2, <2>3 DEF grants, syncing, Forgotten
<1>8. ASSUME NEW c \in calls, Decide(c)
      PROVE  TypeInv'
  <2>1. c.origin \in Players /\ now \in Times /\ Prompt(c.origin, now) \in AllPrompts /\ alive
    BY <1>t, <1>f DEF Askings, Times, Prompt, AllPrompts, Forgotten
  <2>2. promptedAt' \in [Players -> Times] /\ pending' \in [Players -> Times]
    BY <1>t, <1>8, <2>1 DEF Decide
  <2> QED
    BY <1>t, <1>q, <1>8, <2>1, <2>2 DEF Decide, grants, syncing, Forgotten
<1>9. ASSUME NEW x \in prompts
      PROVE  Cleared(x) \in [Players -> Times]
  BY <1>t DEF Cleared, AllPrompts, Times
<1>10. ASSUME NEW x \in prompts, PromptDenied(x)
       PROVE  TypeInv'
  BY <1>t, <1>f, <1>q, <1>9, <1>10 DEF PromptDenied, grants, syncing, Forgotten
<1>11. ASSUME NEW x \in prompts, PromptGranted(x)
       PROVE  TypeInv'
  <2>1. chain' \in Seq(Owners) /\ Len(chain') <= MaxQueue + 1
    BY <1>t, <1>11 DEF PromptGranted, Enqueue, Owners, Room
  <2>2. x.origin \in Origins /\ alive
    BY <1>t, <1>f, SiteAccessAssumption DEF AllPrompts, Forgotten
  <2>3. Numbers' /\ Grants'
    BY <1>t, <1>11, <2>2 DEF PromptGranted, GrantsBecome, Room
  <2>4. Paging'
    BY <1>t, <1>11, KeptType DEF PromptGranted
  <2> QED
    BY <1>t, <1>q, <1>9, <1>11, <2>1, <2>2, <2>3, <2>4 DEF PromptGranted, Forgotten
<1>12. ASSUME NEW p \in Pages, NEW patterns \in SUBSET Origins, Asks(p, patterns)
       PROVE  TypeInv'
  <2>1. Paging'
    BY <1>t, <1>12 DEF Asks, Asking, PageStates
  <2> QED  BY <1>t, <1>f, <1>q, <1>12, <2>1 DEF Asks, grants, syncing, asking, Forgotten
<1>13. ASSUME NEW p \in Pages, PageDenied(p)
       PROVE  TypeInv'
  <2>1. Paging'
    BY <1>t, <1>13 DEF PageDenied, PageStates
  <2> QED  BY <1>t, <1>f, <1>q, <1>13, <2>1 DEF PageDenied, grants, syncing, asking, Forgotten
<1>14. ASSUME NEW p \in Pages, PageGranted(p)
       PROVE  TypeInv'
  <2>1. chain' \in Seq(Owners) /\ Len(chain') <= MaxQueue + 1
    BY <1>t, <1>14 DEF PageGranted, Enqueue, Owners, Room
  <2>2. page[p] \in PageStates
    BY <1>t
  <2>3. Numbers' /\ Grants'
    BY <1>t, <1>14, <2>2 DEF PageGranted, GrantsBecome, Room, PageStates
  <2>4. Paging'
    BY <1>t, <1>14, <2>2, ApplyingType DEF PageGranted
  <2> QED
    BY <1>t, <1>q, <1>14, <2>1, <2>3, <2>4 DEF PageGranted, Forgotten, asking
<1>15. ASSUME NEW p \in Pages, NEW patterns \in SUBSET Origins, Revokes(p, patterns)
       PROVE  TypeInv'
  <2>1. chain' \in Seq(Owners) /\ Len(chain') <= MaxQueue + 1
    BY <1>t, <1>15 DEF Revokes, Enqueue, Owners, Room
  <2> DEFINE r == [step |-> "idle", kind |-> "revoke", patterns |-> patterns, kept |-> {}]
  <2>2. r \in PageStates
    BY DEF PageStates
  <2>3. Numbers' /\ Grants'
    BY <1>t, <1>15 DEF Revokes, GrantsBecome, Room
  <2>4. Paging'
    BY <1>t, <1>15, <2>2, ApplyingType DEF Revokes
  <2> QED
    BY <1>t, <1>q, <1>15, <2>1, <2>3, <2>4 DEF Revokes, Forgotten, asking
<1>16. ASSUME NEW o \in Origins, RevokedOutside(o)
       PROVE  TypeInv'
  <2>1. Numbers' /\ Grants'
    <3>1. events' \in 0..(MaxQueue + 1) /\ granted' \subseteq Origins /\ outside' \in 0..MaxOutside
      BY <1>t, <1>16 DEF RevokedOutside, GrantsBecome, Room
    <3>2. UNCHANGED <<syncing, asking, alive, now, stops>>
      BY <1>16 DEF RevokedOutside
    <3> QED  BY <1>t, <3>1, <3>2 DEF syncing
  <2>2. Paging'
    BY <1>t, <1>16, KeptType DEF RevokedOutside
  <2> QED
    BY <1>t, <1>f, <1>q, <1>16, <2>1, <2>2 DEF RevokedOutside, Forgotten, syncing, asking
<1>17. CASE Stop
  <2>1. Paging'
    BY <1>t, <1>17 DEF Stop, PageStates
  <2>2. Queue' /\ Memory'
    BY <1>t, <1>17, IdleType DEF Stop, Times
  <2>3. Asking0' /\ Forgotten' /\ alive' \in BOOLEAN
    BY <1>17 DEF Stop, Forgotten
  <2>5. stops' \in 0..MaxStops
    <3>1. stops' = stops + 1 /\ stops < MaxStops
      BY <1>17 DEF Stop
    <3> QED  BY <1>t, <3>1
  <2>4. UNCHANGED <<grants, registered, failed, fails, now>>
    BY <1>17 DEF Stop
  <2> QED  BY <1>t, <1>q, <2>1, <2>2, <2>3, <2>4, <2>5 DEF grants
<1>18. CASE Wake
  <2>1. chain' \in Seq(Owners) /\ Len(chain') <= MaxQueue + 1
    BY <1>t, <1>f, <1>18 DEF Wake, Enqueue, Owners, Forgotten
  <2> QED  BY <1>t, <1>q, <1>18, <2>1 DEF Wake, grants, asking, Forgotten
<1>19. CASE Tick
  BY <1>t, <1>f, <1>q, <1>19 DEF Tick, grants, syncing, asking, Forgotten
<1>20. CASE UNCHANGED vars
  BY <1>t, <1>f, <1>q, <1>20 DEF vars, Forgotten
<1> HIDE DEF Numbers, Grants, Flags, Queue, Asking0, Memory, Paging
<1>21. ASSUME NEW p \in Pages,
              \/ AskSite(p) \/ AskUndo(p)
              \/ \E o \in Players : AskPlayer(p, o)
              \/ \E o \in Origins : RevokeSite(p, o)
              \/ RevokeListed(p)
       PROVE  TypeInv'
  <2>1. page[p].patterns \in SUBSET Origins /\ granted \in SUBSET Origins
    BY DEF TypeInv, TypeOK
  <2> QED
    BY <1>12, <1>15, <1>21, <2>1, SiteAccessAssumption
    DEF AskSite, AskUndo, AskPlayer, RevokeSite, RevokeListed
<1> QED
  BY <1>1, <1>2, <1>3, <1>4, <1>5, <1>6, <1>7, <1>8, <1>10, <1>11, <1>13, <1>14, <1>16,
     <1>17, <1>18, <1>19, <1>20, <1>21
  DEF Next, Sync, Done

\* The type invariant of site access.
THEOREM TypeCorrect == Spec => []TypeInv
  BY TypeInit, TypeStep, PTL DEF Spec

-----------------------------------------------------------------------------
(* The registration follows the grants                                     *)

\* RegistrationFollows alone is not inductive: what makes it true is that a synchronization which
\* nothing waits behind works with the grants as they are now.
Follows ==
  /\ sync.step = "idle" => RegistrationFollows
  /\ sync.step # "idle" => (chain = <<>> /\ events = 0 => sync.matches = granted)

\* Nothing the registration depends on, but the announcement of a change and the queue.
LEMMA FollowsQueued ==
  ASSUME TypeInv, Follows, UNCHANGED <<registered, sync, failed>>,
         chain' # <<>> \/ events' > 0 \/ (UNCHANGED <<granted, chain, events, alive>>)
  PROVE  Follows'
  BY DEF Follows, RegistrationFollows, Settled

\* A synchronization that succeeds has registered what it set out to.
LEMMA FollowsEnds ==
  ASSUME NEW ok \in BOOLEAN, Follows, sync.step # "idle", SyncEnds(ok),
         UNCHANGED <<chain, granted, events>>, ok => registered' = sync.matches
  PROVE  Follows'
<1>1. sync'.step = "idle" /\ failed' = ~ok
  BY DEF SyncEnds, Idle
<1>2. chain = <<>> /\ events = 0 => sync.matches = granted
  BY DEF Follows
<1>3. RegistrationFollows'
  <2>1. CASE ok = TRUE
    <3>1. registered' = sync.matches
      BY <2>1
    <3>2. chain' = <<>> /\ events' = 0 => registered' = granted'
      BY <1>2, <3>1
    <3> QED  BY <3>2 DEF RegistrationFollows, Settled
  <2>2. CASE ok = FALSE
    <3>1. failed'
      BY <1>1, <2>2
    <3> QED  BY <3>1 DEF RegistrationFollows
  <2> QED  BY <2>1, <2>2
<1> QED  BY <1>1, <1>3 DEF Follows

\* A change of the grants is announced, and asked for.
LEMMA Announced ==
  ASSUME TypeInv, NEW after, GrantsBecome(after)
  PROVE  events' > 0 \/ UNCHANGED <<granted, events>>
  BY Bounds DEF TypeInv, TypeOK, GrantsBecome

LEMMA Enqueued ==
  ASSUME TypeInv, NEW o, Enqueue(o)
  PROVE  chain' # <<>>
  BY DEF TypeInv, TypeOK, Enqueue

LEMMA FollowsStep == TypeInv /\ Follows /\ [Next]_vars => Follows'
<1> SUFFICES ASSUME TypeInv, Follows, [Next]_vars PROVE Follows'
  OBVIOUS
<1>1. CASE SyncStarts
  BY <1>1 DEF SyncStarts, Running, Follows, grants
<1>2. CASE SyncLists
  <2>1. sync.step # "idle" /\ UNCHANGED <<registered, chain, granted, events, alive>>
    BY <1>2 DEF SyncLists, grants
  <2>2. CASE IsCurrent /\ SyncEnds(TRUE)
    BY <2>1, <2>2, FollowsEnds DEF IsCurrent
  <2>3. CASE \E s \in {"register", "unregister"} : sync' = [sync EXCEPT !.step = s]
    <3>1. sync'.step # "idle" /\ sync'.matches = sync.matches
      BY <2>3 DEF TypeInv, TypeOK
    <3> QED  BY <2>1, <3>1 DEF Follows
  <2> QED  BY <1>2, <2>2, <2>3 DEF SyncLists
<1>3. CASE SyncUnregisters
  <2>1. sync.step # "idle" /\ UNCHANGED <<chain, granted, events, alive>> /\ registered' = {}
    BY <1>3 DEF SyncUnregisters, grants
  <2>2. CASE sync.matches = {} /\ SyncEnds(TRUE)
    BY <2>1, <2>2, FollowsEnds
  <2>3. CASE sync' = [sync EXCEPT !.step = "register"]
    <3>1. sync'.step # "idle" /\ sync'.matches = sync.matches
      BY <2>3 DEF TypeInv, TypeOK
    <3> QED  BY <2>1, <3>1 DEF Follows
  <2> QED  BY <1>3, <2>2, <2>3 DEF SyncUnregisters
<1>4. CASE SyncRegisters
  BY <1>4, FollowsEnds DEF SyncRegisters, grants
<1>5. CASE SyncFails
  BY <1>5, FollowsEnds DEF SyncFails, grants
<1>6. CASE PermissionEvent
  BY <1>6, FollowsQueued, Enqueued DEF PermissionEvent
<1>7. ASSUME NEW d, NEW o, Report(d, o) PROVE Follows'
  BY <1>7, FollowsQueued DEF Report, grants, syncing
<1>8. ASSUME NEW c, Decide(c) PROVE Follows'
  BY <1>8, FollowsQueued DEF Decide, grants, syncing
<1>10. ASSUME NEW x, PromptDenied(x) PROVE Follows'
  BY <1>10, FollowsQueued DEF PromptDenied, grants, syncing
<1>11. ASSUME NEW x, PromptGranted(x) PROVE Follows'
  BY <1>11, FollowsQueued, Enqueued DEF PromptGranted
<1>12. ASSUME NEW p, NEW patterns, Asks(p, patterns) PROVE Follows'
  BY <1>12, FollowsQueued DEF Asks, grants, syncing
<1>13. ASSUME NEW p, PageDenied(p) PROVE Follows'
  BY <1>13, FollowsQueued DEF PageDenied, grants, syncing
<1>14. ASSUME NEW p, PageGranted(p) PROVE Follows'
  BY <1>14, FollowsQueued, Enqueued DEF PageGranted
<1>15. ASSUME NEW p, NEW patterns, Revokes(p, patterns) PROVE Follows'
  BY <1>15, FollowsQueued, Enqueued DEF Revokes
<1>16. ASSUME NEW o, RevokedOutside(o) PROVE Follows'
  BY <1>16, FollowsQueued, Announced DEF RevokedOutside, syncing
<1>17. CASE Stop
  <2>1. ~alive' /\ sync'.step = "idle"
    BY <1>17 DEF Stop, Idle
  <2> QED  BY <2>1 DEF Follows, RegistrationFollows, Settled
<1>18. CASE Wake
  <2>1. chain' # <<>> /\ UNCHANGED sync
    BY <1>18, Enqueued DEF Wake
  <2> QED  BY <2>1 DEF Follows, RegistrationFollows, Settled
<1>19. CASE Tick
  BY <1>19, FollowsQueued DEF Tick, grants, syncing
<1>20. CASE UNCHANGED vars
  BY <1>20, FollowsQueued DEF vars
<1> QED
  BY <1>1, <1>2, <1>3, <1>4, <1>5, <1>6, <1>7, <1>8, <1>10, <1>11, <1>12, <1>13, <1>14, <1>15,
     <1>16, <1>17, <1>18, <1>19, <1>20
  DEF Next, Sync, Done, AskSite, AskUndo, AskPlayer, RevokeSite, RevokeListed

\* Once the worker has worked off what it was asked for, the scripts are registered for exactly
\* the granted origins, unless the last synchronization failed.
THEOREM RegistrationCorrect == Spec => []RegistrationFollows
<1>1. Init => Follows
  BY DEF Init, Follows, RegistrationFollows, Settled, Idle
<1>2. Follows => RegistrationFollows
  BY DEF Follows, RegistrationFollows, Settled
<1> QED
  BY <1>1, <1>2, TypeCorrect, FollowsStep, PTL DEF Spec

-----------------------------------------------------------------------------
(* One doorhanger is enough                                                *)

\* A prompt that is not stale is the one that counts as open for its player.
Tracked ==
  \A q \in prompts : q.at <= now /\ (now - q.at < Stale => pending[q.origin] = q.at)

Doorhanging == Tracked /\ OneDoorhanger

\* The answer to a prompt keeps the entry of any other prompt that is not stale.
LEMMA DoorhangerAnswered ==
  ASSUME TypeInv, Doorhanging, NEW x \in prompts,
         prompts' = prompts \ {x}, pending' = Cleared(x), now' = now
  PROVE  Doorhanging'
<1>1. ASSUME NEW q \in prompts, q # x, now - q.at < Stale
      PROVE  pending'[q.origin] = q.at
  <2>1. pending[q.origin] = q.at
    BY <1>1 DEF Doorhanging, Tracked
  <2>2. q.origin \in Players /\ q.at # Never /\ (q.origin # x.origin \/ q.at # x.at)
    BY <1>1 DEF TypeInv, TypeOK, AllPrompts, Never
  <2>3. pending \in [Players -> Times]
    BY DEF TypeInv, TypeOK
  <2> QED  BY <2>1, <2>2, <2>3 DEF Cleared
<1> QED
  BY <1>1 DEF Doorhanging, Tracked, OneDoorhanger

LEMMA DoorhangerDecided ==
  ASSUME TypeInv, Doorhanging, NEW c \in calls, Decide(c)
  PROVE  Doorhanging'
<1>1. now' = now
  BY DEF Decide
<1>2. CASE UNCHANGED <<pending, prompts>>
  BY <1>1, <1>2 DEF Doorhanging, Tracked, OneDoorhanger
<1>3. CASE ~Suppressed(c.origin)
           /\ pending' = [pending EXCEPT ![c.origin] = now]
           /\ prompts' = prompts \cup {Prompt(c.origin, now)}
  <2> DEFINE x == Prompt(c.origin, now)
  <2>1. /\ now \in Nat /\ Stale \in Nat \ {0} /\ c.origin \in Players
        /\ pending \in [Players -> Times]
        /\ \A q \in prompts : q.at \in Nat /\ q.origin \in Players
    BY SiteAccessAssumption DEF TypeInv, TypeOK, AllPrompts
  <2>2. x.at = now /\ x.origin = c.origin
    BY DEF Prompt
  <2>3. ASSUME NEW q \in prompts, q.origin = c.origin
        PROVE  now - q.at >= Stale
    <3>1. ~(pending[c.origin] # Never /\ now - pending[c.origin] < Stale)
      BY <1>3 DEF Suppressed
    <3>2. now - q.at < Stale => pending[c.origin] = q.at
      BY <2>3 DEF Doorhanging, Tracked
    <3> QED  BY <2>1, <3>1, <3>2 DEF Never
  <2> HIDE DEF x
  <2>4. Tracked'
    <3> SUFFICES ASSUME NEW q \in prompts'
                 PROVE  q.at <= now /\ (now - q.at < Stale => pending'[q.origin] = q.at)
      BY <1>1 DEF Tracked
    <3>1. CASE q = x
      BY <1>3, <2>1, <2>2, <3>1
    <3>2. CASE q \in prompts
      <4>1. q.at <= now /\ (now - q.at < Stale => pending[q.origin] = q.at)
        BY <3>2 DEF Doorhanging, Tracked
      <4>2. now - q.at < Stale => q.origin # c.origin
        BY <2>1, <2>3, <3>2
      <4> QED  BY <1>3, <2>1, <3>2, <4>1, <4>2
    <3> QED  BY <1>3, <3>1, <3>2 DEF x
  <2>5. OneDoorhanger'
    <3> SUFFICES ASSUME NEW q \in prompts', NEW r \in prompts', q.origin = r.origin, q.at < r.at
                 PROVE  r.at - q.at >= Stale
      BY DEF OneDoorhanger
    <3>1. prompts' = prompts \cup {x}
      BY <1>3 DEF x
    <3>2. CASE q \in prompts /\ r \in prompts
      BY <3>2 DEF Doorhanging, OneDoorhanger
    <3>3. CASE q \in prompts /\ r = x
      BY <2>2, <2>3, <3>3
    <3>4. CASE q = x /\ r \in prompts
      <4>1. r.at <= now /\ r.at \in Nat
        BY <2>1, <3>4 DEF Doorhanging, Tracked
      <4> QED  BY <2>1, <2>2, <3>4, <4>1
    <3> QED  BY <2>1, <2>2, <3>1, <3>2, <3>3, <3>4
  <2> QED  BY <2>4, <2>5 DEF Doorhanging
<1> QED  BY <1>2, <1>3 DEF Decide

LEMMA DoorhangerStep == TypeInv /\ Doorhanging /\ [Next]_vars => Doorhanging'
<1> SUFFICES ASSUME TypeInv, Doorhanging, [Next]_vars PROVE Doorhanging'
  OBVIOUS
<1>1. CASE UNCHANGED <<prompts, pending, now>>
  BY <1>1 DEF Doorhanging, Tracked, OneDoorhanger
<1>2. ASSUME NEW c \in calls, Decide(c) PROVE Doorhanging'
  BY <1>2, DoorhangerDecided
<1>3. ASSUME NEW x \in prompts, PromptDenied(x) \/ PromptGranted(x) PROVE Doorhanging'
  BY <1>3, DoorhangerAnswered DEF PromptDenied, PromptGranted
<1>4. CASE Stop
  BY <1>4 DEF Stop, Doorhanging, Tracked, OneDoorhanger
<1>5. CASE Tick
  <2>1. now \in Nat /\ Stale \in Nat /\ \A q \in prompts : q.at \in Nat
    BY SiteAccessAssumption DEF TypeInv, TypeOK, AllPrompts
  <2>2. now' = now + 1 /\ UNCHANGED <<prompts, pending>>
    BY <1>5 DEF Tick, asking
  <2> QED  BY <2>1, <2>2 DEF Doorhanging, Tracked, OneDoorhanger
<1>6. CASE Sync \/ SyncFails
  BY <1>1, <1>6 DEF Sync, SyncStarts, SyncLists, SyncUnregisters, SyncRegisters, SyncFails, asking
<1>7. CASE PermissionEvent \/ (\E d \in Docs, o \in Players : Report(d, o))
           \/ (\E o \in Origins : RevokedOutside(o)) \/ Wake
  BY <1>1, <1>7 DEF PermissionEvent, Report, RevokedOutside, Wake, asking
<1>8. CASE \E p \in Pages :
             \/ AskSite(p) \/ AskUndo(p)
             \/ \E o \in Players : AskPlayer(p, o)
             \/ PageGranted(p) \/ PageDenied(p)
             \/ \E o \in Origins : RevokeSite(p, o)
             \/ RevokeListed(p)
  BY <1>1, <1>8
  DEF AskSite, AskUndo, AskPlayer, Asks, PageGranted, PageDenied, RevokeSite, RevokeListed, Revokes,
      asking
<1> QED
  BY <1>1, <1>2, <1>3, <1>4, <1>5, <1>6, <1>7, <1>8 DEF Next, Done, vars

\* While a prompt for a player is open no second one appears until the first counts as forgotten.
THEOREM DoorhangerCorrect == Spec => []OneDoorhanger
<1>1. Init => Doorhanging
  BY DEF Init, Doorhanging, Tracked, OneDoorhanger
<1>2. Doorhanging => OneDoorhanger
  BY DEF Doorhanging
<1> QED
  BY <1>1, <1>2, TypeCorrect, DoorhangerStep, PTL DEF Spec

-----------------------------------------------------------------------------
(* A page is told of its change when the change is there                   *)

Mine(p) == <<"page", p>>
Works(p) == sync.step # "idle" /\ sync.owner = Mine(p)

\* A page waits for at most one synchronization, and only while it has not been answered.
Waits ==
  \A p \in Pages :
    /\ \A i, j \in DOMAIN chain : chain[i] = Mine(p) /\ chain[j] = Mine(p) => i = j
    /\ \A i \in DOMAIN chain : chain[i] = Mine(p) => page[p].step = "syncing" /\ ~Works(p)
    /\ Works(p) => page[p].step = "syncing"

\* What a set of origins has to be for the page to be answered.
Holds(p, set) ==
  IF page[p].kind = "grant" THEN page[p].kept \subseteq set ELSE page[p].kept \cap set = {}

\* What a waiting page is promised holds of the grants, and of the synchronization that works for
\* it; a page that asks asks for a grant.
Promised ==
  \A p \in Pages :
    /\ page[p].step = "syncing" => Holds(p, granted) /\ (Works(p) => Holds(p, sync.matches))
    /\ page[p].step = "asking" => page[p].kind = "grant"

\* A change of the grants leaves a page as it was, but for the patterns it has released.
LEMMA KeptFacts ==
  ASSUME page \in [Pages -> PageStates]
  PROVE  \A p \in Pages :
           /\ Kept(granted, granted')[p].step = page[p].step
           /\ Kept(granted, granted')[p].kind = page[p].kind
           /\ Kept(granted, granted')[p].kept =
                IF page[p].step # "syncing" THEN page[p].kept
                ELSE IF page[p].kind = "grant" THEN page[p].kept \ (granted \ granted')
                ELSE page[p].kept \ (granted' \ granted)
<1> SUFFICES ASSUME NEW p \in Pages
    PROVE  /\ Kept(granted, granted')[p].step = page[p].step
           /\ Kept(granted, granted')[p].kind = page[p].kind
           /\ Kept(granted, granted')[p].kept =
                IF page[p].step # "syncing" THEN page[p].kept
                ELSE IF page[p].kind = "grant" THEN page[p].kept \ (granted \ granted')
                ELSE page[p].kept \ (granted' \ granted)
  OBVIOUS
<1> DEFINE k == Kept(granted, granted')[p]
           left == page[p].kept \ (granted \ granted')
           apart == page[p].kept \ (granted' \ granted)
           l == [page[p] EXCEPT !.kept = left]
           m == [page[p] EXCEPT !.kept = apart]
<1>1. page[p] \in PageStates
  OBVIOUS
<1>2. k = IF page[p].step # "syncing" THEN page[p] ELSE IF page[p].kind = "grant" THEN l ELSE m
  BY Zenon DEF Kept
<1>3. /\ l.step = page[p].step /\ l.kind = page[p].kind /\ l.kept = left
      /\ m.step = page[p].step /\ m.kind = page[p].kind /\ m.kept = apart
  BY <1>1 DEF PageStates
<1>4. /\ k.step = page[p].step /\ k.kind = page[p].kind
      /\ k.kept = IF page[p].step # "syncing" THEN page[p].kept
                  ELSE IF page[p].kind = "grant" THEN left ELSE apart
  <2> HIDE DEF k, left, apart, l, m
  <2>1. CASE page[p].step # "syncing"
    BY <1>2, <2>1
  <2>2. CASE page[p].step = "syncing" /\ page[p].kind = "grant"
    BY <1>2, <1>3, <2>2
  <2>3. CASE page[p].step = "syncing" /\ page[p].kind # "grant"
    BY <1>2, <1>3, <2>3
  <2> QED  BY <2>1, <2>2, <2>3
<1> QED  BY <1>4

\* Nobody's wait ends or begins with the synchronization that is asked for.
LEMMA WaitsOn ==
  ASSUME TypeInv, Waits, UNCHANGED sync,
         \A p \in Pages : page[p].step = "syncing" => page'[p].step = "syncing",
         \/ UNCHANGED chain
         \/ \E o : (\A p \in Pages : o # Mine(p)) /\ chain' = Append(chain, o)
  PROVE  Waits'
<1>1. CASE UNCHANGED chain
  BY <1>1 DEF Waits, Works, Mine
<1>2. ASSUME NEW o, \A p \in Pages : o # Mine(p), chain' = Append(chain, o)
      PROVE  Waits'
  <2>1. chain \in Seq(Owners)
    BY DEF TypeInv, TypeOK
  <2>2. /\ DOMAIN chain' = 1..(Len(chain) + 1) /\ DOMAIN chain = 1..Len(chain)
        /\ Len(chain) \in Nat
        /\ \A i \in DOMAIN chain : chain'[i] = chain[i]
        /\ chain'[Len(chain) + 1] = o
    BY <1>2, <2>1
  <2>3. ASSUME NEW p \in Pages, NEW i \in DOMAIN chain', chain'[i] = Mine(p)
        PROVE  i \in DOMAIN chain /\ chain[i] = Mine(p)
    <3>1. i # Len(chain) + 1
      BY <1>2, <2>2, <2>3
    <3> QED  BY <2>2, <2>3, <3>1
  <2> QED
    BY <2>3 DEF Waits, Works, Mine
<1> QED  BY <1>1, <1>2

\* A page that has changed the grants begins to wait.
LEMMA WaitsMine ==
  ASSUME TypeInv, Waits, UNCHANGED sync, NEW x \in Pages, page[x].step # "syncing",
         page'[x].step = "syncing",
         \A p \in Pages : page[p].step = "syncing" => page'[p].step = "syncing",
         chain' = Append(chain, Mine(x))
  PROVE  Waits'
<1>1. chain \in Seq(Owners)
  BY DEF TypeInv, TypeOK
<1>2. /\ DOMAIN chain' = 1..(Len(chain) + 1) /\ DOMAIN chain = 1..Len(chain)
      /\ Len(chain) \in Nat
      /\ \A i \in DOMAIN chain : chain'[i] = chain[i]
      /\ chain'[Len(chain) + 1] = Mine(x)
  BY <1>1
<1>3. \A i \in DOMAIN chain : chain[i] # Mine(x)
  BY DEF Waits
<1>4. ~Works(x) /\ \A p \in Pages : Works(p)' = Works(p)
  BY DEF Waits, Works, Mine
<1>5. \A p \in Pages : p # x => Mine(p) # Mine(x)
  BY DEF Mine
<1>6. ASSUME NEW p \in Pages, NEW i \in DOMAIN chain', chain'[i] = Mine(p)
      PROVE  IF p = x THEN i = Len(chain) + 1 ELSE i \in DOMAIN chain /\ chain[i] = Mine(p)
  BY <1>2, <1>3, <1>5, <1>6
<1>7. ASSUME NEW p \in Pages
      PROVE  /\ \A i, j \in DOMAIN chain' : chain'[i] = Mine(p) /\ chain'[j] = Mine(p) => i = j
             /\ \A i \in DOMAIN chain' : chain'[i] = Mine(p) =>
                  page'[p].step = "syncing" /\ ~Works(p)'
             /\ Works(p)' => page'[p].step = "syncing"
  BY <1>4, <1>6 DEF Waits
<1> QED  BY <1>7 DEF Waits, Mine

\* A synchronization of the queue begins.
LEMMA WaitsStarts ==
  ASSUME TypeInv, Waits, SyncStarts
  PROVE  Waits'
<1>1. chain \in Seq(Owners) /\ chain # <<>> /\ sync.step = "idle"
  BY DEF TypeInv, TypeOK, SyncStarts
<1>2. /\ DOMAIN chain = 1..Len(chain) /\ Len(chain) \in Nat \ {0}
      /\ DOMAIN chain' = 1..(Len(chain) - 1)
      /\ \A i \in DOMAIN chain' : chain'[i] = chain[i + 1]
      /\ UNCHANGED page /\ sync'.step # "idle" /\ sync'.owner = chain[1]
  BY <1>1 DEF SyncStarts, Running
<1>3. ASSUME NEW p \in Pages
      PROVE  /\ \A i, j \in DOMAIN chain' : chain'[i] = Mine(p) /\ chain'[j] = Mine(p) => i = j
             /\ \A i \in DOMAIN chain' : chain'[i] = Mine(p) =>
                  page'[p].step = "syncing" /\ sync'.owner # Mine(p)
             /\ sync'.owner = Mine(p) => page'[p].step = "syncing"
  BY <1>2 DEF Waits
<1> QED  BY <1>2, <1>3 DEF Waits, Works, Mine

\* The one that runs ends: the page it worked for is answered, and waits for no other.
LEMMA WaitsEnds ==
  ASSUME TypeInv, Waits, sync.step # "idle", NEW ok \in BOOLEAN, SyncEnds(ok), UNCHANGED chain
  PROVE  /\ Waits'
         /\ \A p \in Pages : page'[p] # page[p] =>
              Works(p) /\ page'[p].step \in {"done", "failed"}
<1>1. /\ sync.owner \in Owners /\ page \in [Pages -> PageStates]
      /\ waiting \subseteq AllPrompts
  BY DEF TypeInv, TypeOK, PageStates
<1>2. sync.owner[1] = "page" => sync.owner = Mine(sync.owner[2])
  BY <1>1 DEF Owners, Nobody, Mine
<1>3. \A p \in Pages : page'[p] # page[p] =>
        Works(p) /\ page'[p].step = IF ok THEN "done" ELSE "failed"
  BY <1>1, <1>2, EndType DEF Works
<1>4. sync'.step = "idle"
  BY DEF SyncEnds, Idle
<1>5. ASSUME NEW p \in Pages, NEW i \in DOMAIN chain, chain[i] = Mine(p)
      PROVE  page'[p].step = "syncing"
  BY <1>3, <1>5 DEF Waits
<1> QED  BY <1>3, <1>4, <1>5 DEF Waits, Works, Mine

\* The grants change: whoever waits keeps what nobody has changed.
LEMMA PromisedOn ==
  ASSUME TypeInv, Promised, UNCHANGED sync,
         \A p \in Pages :
           \/ page'[p] = Kept(granted, granted')[p]
           \/ page'[p].step = "syncing" /\ ~Works(p) /\ Holds(p, granted)'
  PROVE  Promised'
<1>1. page \in [Pages -> PageStates]
  BY DEF TypeInv, TypeOK, PageStates
<1>2. ASSUME NEW p \in Pages
      PROVE  /\ page'[p].step = "syncing" =>
                   Holds(p, granted)' /\ (Works(p)' => Holds(p, sync.matches)')
             /\ page'[p].step = "asking" => page'[p].kind = "grant"
  <2>1. Works(p)' = Works(p)
    BY DEF Works, Mine
  <2>2. CASE page'[p] = Kept(granted, granted')[p]
    <3> DEFINE k == Kept(granted, granted')[p]
    <3>1. /\ k.step = page[p].step /\ k.kind = page[p].kind
          /\ k.kept = IF page[p].step # "syncing" THEN page[p].kept
                      ELSE IF page[p].kind = "grant" THEN page[p].kept \ (granted \ granted')
                      ELSE page[p].kept \ (granted' \ granted)
      BY <1>1, KeptFacts
    <3> HIDE DEF k
    <3>2. /\ page[p].step = "syncing" =>
                Holds(p, granted) /\ (Works(p) => Holds(p, sync.matches))
          /\ page[p].step = "asking" => page[p].kind = "grant"
      BY DEF Promised
    <3>3. page'[p] = k
      BY <2>2 DEF k
    <3> QED  BY <2>1, <3>1, <3>2, <3>3 DEF Holds
  <2>3. CASE page'[p].step = "syncing" /\ ~Works(p) /\ Holds(p, granted)'
    BY <2>1, <2>3
  <2> QED  BY <2>2, <2>3
<1> QED  BY <1>2 DEF Promised

\* The grants stay: a page goes on as it was, or does not wait any more.
LEMMA PromisedStill ==
  ASSUME Promised, UNCHANGED granted,
         sync'.step = "idle" \/ (sync'.step # "idle" /\ sync.step # "idle"
                                 /\ sync'.owner = sync.owner /\ sync'.matches = sync.matches),
         \A p \in Pages :
           \/ page'[p] = page[p]
           \/ page'[p].step # "syncing" /\ (page'[p].step = "asking" => page'[p].kind = "grant")
  PROVE  Promised'
  BY DEF Promised, Holds, Works, Mine

LEMMA PromisedStarts ==
  ASSUME Promised, SyncStarts
  PROVE  Promised'
  BY DEF Promised, Holds, Works, Mine, SyncStarts, Running, grants

\* The pages that a change of the grants leaves alone, and the one that made it.
LEMMA Applies ==
  ASSUME page \in [Pages -> PageStates], NEW x \in Pages, NEW r \in PageStates,
         page' = Applying(x, r)
  PROVE  /\ page'[x].step = "syncing" /\ page'[x].kind = r.kind /\ page'[x].kept = r.patterns
         /\ \A p \in Pages \ {x} : page'[p] = Kept(granted, granted')[p]
         /\ \A p \in Pages : page[p].step = "syncing" => page'[p].step = "syncing"
<1>1. Kept(granted, granted') \in [Pages -> PageStates]
  BY KeptType
<1>2. page' = [Kept(granted, granted') EXCEPT
                 ![x] = [r EXCEPT !.step = "syncing", !.kept = r.patterns]]
  BY DEF Applying
<1>3. /\ [r EXCEPT !.step = "syncing", !.kept = r.patterns].step = "syncing"
      /\ [r EXCEPT !.step = "syncing", !.kept = r.patterns].kind = r.kind
      /\ [r EXCEPT !.step = "syncing", !.kept = r.patterns].kept = r.patterns
  BY DEF PageStates
<1>4. \A p \in Pages : Kept(granted, granted')[p].step = page[p].step
  BY KeptFacts
<1> QED  BY <1>1, <1>2, <1>3, <1>4

LEMMA PromisingPrompted ==
  ASSUME TypeInv, Waits, Promised, NEW x, PromptGranted(x)
  PROVE  Waits' /\ Promised'
<1>1. page \in [Pages -> PageStates]
  BY DEF TypeInv, TypeOK, PageStates
<1>2. page' = Kept(granted, granted') /\ chain' = Append(chain, <<"prompt", x>>) /\ UNCHANGED sync
  BY DEF PromptGranted, Enqueue
<1>3. Waits'
  <2>1. \A p \in Pages : <<"prompt", x>> # Mine(p)
    BY DEF Mine
  <2>2. \A p \in Pages : page'[p].step = page[p].step
    BY <1>1, <1>2, KeptFacts
  <2> QED  BY <1>2, <2>1, <2>2, WaitsOn
<1> QED  BY <1>2, <1>3, PromisedOn

LEMMA PromisingChanged ==
  ASSUME TypeInv, Waits, Promised, NEW x \in Pages, NEW r \in PageStates,
         page[x].step # "syncing", page' = Applying(x, r), chain' = Append(chain, Mine(x)),
         UNCHANGED sync,
         IF r.kind = "grant" THEN r.patterns \subseteq granted' ELSE r.patterns \cap granted' = {}
  PROVE  Waits' /\ Promised'
<1>1. page \in [Pages -> PageStates]
  BY DEF TypeInv, TypeOK, PageStates
<1>2. /\ page'[x].step = "syncing" /\ page'[x].kind = r.kind /\ page'[x].kept = r.patterns
      /\ \A p \in Pages \ {x} : page'[p] = Kept(granted, granted')[p]
      /\ \A p \in Pages : page[p].step = "syncing" => page'[p].step = "syncing"
  BY <1>1, Applies
<1>3. Waits'
  BY <1>2, WaitsMine
<1>4. ~Works(x)
  BY DEF Waits
<1>5. Holds(x, granted)'
  BY <1>2 DEF Holds
<1> QED  BY <1>2, <1>3, <1>4, <1>5, PromisedOn

LEMMA PromisingStep == TypeInv /\ Waits /\ Promised /\ [Next]_vars => Waits' /\ Promised'
<1> SUFFICES ASSUME TypeInv, Waits, Promised, [Next]_vars PROVE Waits' /\ Promised'
  OBVIOUS
<1>t. page \in [Pages -> PageStates] /\ sync \in Syncs
  BY DEF TypeInv, TypeOK, PageStates, Syncs
<1>1. CASE SyncStarts
  BY <1>1, WaitsStarts, PromisedStarts
<1>2. ASSUME sync.step # "idle", NEW ok \in BOOLEAN, SyncEnds(ok), UNCHANGED <<chain, granted>>
      PROVE  Waits' /\ Promised'
  <2>1. sync'.step = "idle"
    BY <1>2 DEF SyncEnds, Idle
  <2>2. Waits' /\ \A p \in Pages : page'[p] # page[p] => page'[p].step \in {"done", "failed"}
    BY <1>2, WaitsEnds
  <2> QED  BY <1>2, <2>1, <2>2, PromisedStill
<1>3. ASSUME sync.step # "idle", NEW s \in {"register", "unregister"},
             sync' = [sync EXCEPT !.step = s], UNCHANGED <<chain, granted, page>>
      PROVE  Waits' /\ Promised'
  <2>1. sync'.step # "idle" /\ sync'.owner = sync.owner /\ sync'.matches = sync.matches
    BY <1>t, <1>3 DEF Syncs
  <2> QED  BY <1>3, <2>1, PromisedStill DEF Waits, Works, Mine
<1>4. CASE SyncLists \/ SyncUnregisters \/ SyncRegisters \/ SyncFails
  BY <1>2, <1>3, <1>4 DEF SyncLists, SyncUnregisters, SyncRegisters, SyncFails, grants
<1>5. CASE PermissionEvent \/ Wake
  <2>1. chain' = Append(chain, Nobody) /\ UNCHANGED <<sync, page, granted>>
    BY <1>5 DEF PermissionEvent, Wake, Enqueue, grants
  <2>2. \A p \in Pages : Nobody # Mine(p)
    BY DEF Nobody, Mine
  <2>3. Waits'
    BY <2>1, <2>2, WaitsOn
  <2> QED  BY <2>1, <2>3 DEF Promised, Holds, Works, Mine
<1>6. CASE UNCHANGED <<chain, sync, page, granted>>
  BY <1>6 DEF Waits, Promised, Holds, Works, Mine
<1>7. ASSUME NEW x, PromptGranted(x)
      PROVE  Waits' /\ Promised'
  BY <1>7, PromisingPrompted
<1>8. ASSUME NEW x \in Pages, NEW patterns, Asks(x, patterns), page[x].step # "syncing"
      PROVE  Waits' /\ Promised'
  <2>1. /\ page'[x].step = "asking" /\ page'[x].kind = "grant"
        /\ \A p \in Pages \ {x} : page'[p] = page[p]
        /\ UNCHANGED <<chain, sync, granted>>
    BY <1>t, <1>8 DEF Asks, Asking, grants, syncing
  <2>2. Waits'
    BY <1>8, <2>1, WaitsOn
  <2> QED  BY <2>1, <2>2 DEF Promised, Holds, Works, Mine
<1>9. ASSUME NEW x \in Pages, PageDenied(x)
      PROVE  Waits' /\ Promised'
  <2>1. /\ page'[x].step = "failed" /\ page[x].step = "asking"
        /\ \A p \in Pages \ {x} : page'[p] = page[p]
        /\ UNCHANGED <<chain, sync, granted>>
    BY <1>t, <1>9 DEF PageDenied, PageStates, grants, syncing
  <2>2. Waits'
    BY <1>9, <2>1, WaitsOn
  <2> QED  BY <2>1, <2>2 DEF Promised, Holds, Works, Mine
<1>10. ASSUME NEW x \in Pages, PageGranted(x)
       PROVE  Waits' /\ Promised'
  <2>1. page[x] \in PageStates /\ page[x].kind = "grant" /\ page[x].step # "syncing"
    BY <1>t, <1>10 DEF PageGranted, Promised
  <2>2. /\ page' = Applying(x, page[x]) /\ chain' = Append(chain, Mine(x)) /\ UNCHANGED sync
        /\ page[x].patterns \subseteq granted'
    BY <1>10 DEF PageGranted, GrantsBecome, Enqueue, Mine
  <2> QED  BY <2>1, <2>2, PromisingChanged
<1>11. ASSUME NEW x \in Pages, NEW patterns \in SUBSET Origins, Revokes(x, patterns)
       PROVE  Waits' /\ Promised'
  <2> DEFINE r == [step |-> "idle", kind |-> "revoke", patterns |-> patterns, kept |-> {}]
  <2>1. r \in PageStates /\ r.kind # "grant" /\ r.patterns = patterns
    BY DEF PageStates
  <2>2. /\ page' = Applying(x, r) /\ chain' = Append(chain, Mine(x)) /\ UNCHANGED sync
        /\ page[x].step # "syncing" /\ granted' = granted \ patterns
    BY <1>11 DEF Revokes, GrantsBecome, Enqueue, Mine
  <2> HIDE DEF r
  <2>3. r.patterns \cap granted' = {}
    BY <2>1, <2>2
  <2> QED  BY <2>1, <2>2, <2>3, PromisingChanged
<1>12. ASSUME NEW o, RevokedOutside(o)
       PROVE  Waits' /\ Promised'
  <2>1. page' = Kept(granted, granted') /\ UNCHANGED <<chain, sync>>
    BY <1>12 DEF RevokedOutside, syncing
  <2>2. \A p \in Pages : page'[p].step = page[p].step
    BY <1>t, <2>1, KeptFacts
  <2>3. Waits'
    BY <2>1, <2>2, WaitsOn
  <2> QED  BY <2>1, <2>3, PromisedOn
<1>13. CASE Stop
  <2>1. /\ chain' = <<>> /\ sync'.step = "idle" /\ UNCHANGED granted
        /\ \A p \in Pages : page'[p] = page[p] \/ page'[p].step = "failed"
    BY <1>t, <1>13 DEF Stop, Idle, grants, PageStates
  <2>2. \A p \in Pages : page'[p].step # "syncing"
    BY <1>t, <1>13 DEF Stop, PageStates
  <2> QED  BY <2>1, <2>2 DEF Waits, Works, Promised
<1>14. ASSUME NEW p \in Pages,
              \/ AskSite(p) \/ AskUndo(p)
              \/ \E o \in Players : AskPlayer(p, o)
              \/ \E o \in Origins : RevokeSite(p, o)
              \/ RevokeListed(p)
       PROVE  Waits' /\ Promised'
  <2>1. granted \in SUBSET Origins
    BY DEF TypeInv, TypeOK
  <2> QED
    BY <1>8, <1>11, <1>14, <2>1 DEF AskSite, AskUndo, AskPlayer, RevokeSite, RevokeListed
<1>15. CASE \/ \E d \in Docs, o \in Players : Report(d, o)
            \/ \E c \in calls : Decide(c)
            \/ \E q \in prompts : PromptDenied(q)
            \/ Tick \/ UNCHANGED vars
  BY <1>6, <1>15 DEF Report, Decide, PromptDenied, Tick, vars, grants, syncing
<1> QED
  BY <1>1, <1>4, <1>5, <1>7, <1>9, <1>10, <1>12, <1>13, <1>14, <1>15 DEF Next, Sync, Done

\* A synchronization that succeeds has registered what it was started for.
LEMMA AppliedEnds ==
  ASSUME TypeInv, Waits, Promised, sync.step # "idle", SyncEnds(TRUE), UNCHANGED chain,
         registered' = sync.matches,
         NEW p \in Pages, page[p].step = "syncing", page'[p].step = "done"
  PROVE  Holds(p, registered')
<1>1. page'[p] # page[p]
  OBVIOUS
<1>2. Works(p)
  BY <1>1, WaitsEnds
<1> QED  BY <1>2 DEF Promised

\* No step but such an end tells a page that it is done.
LEMMA AppliedStep ==
  ASSUME TypeInv, Waits, Promised, [Next]_vars, NEW p \in Pages,
         page[p].step = "syncing", page'[p].step = "done"
  PROVE  Holds(p, registered')
<1>t. page \in [Pages -> PageStates] /\ sync \in Syncs /\ waiting \subseteq AllPrompts
  BY DEF TypeInv, TypeOK, PageStates, Syncs
<1>1. CASE SyncLists
  <2>1. sync.step # "idle" /\ UNCHANGED <<chain, registered>>
    BY <1>1 DEF SyncLists
  <2>2. SyncEnds(TRUE) /\ IsCurrent
    BY <1>1 DEF SyncLists
  <2> QED  BY <2>1, <2>2, AppliedEnds DEF IsCurrent
<1>2. CASE SyncUnregisters
  <2>1. sync.step # "idle" /\ UNCHANGED chain /\ registered' = {}
    BY <1>2 DEF SyncUnregisters
  <2>2. SyncEnds(TRUE) /\ sync.matches = {}
    BY <1>2 DEF SyncUnregisters
  <2> QED  BY <2>1, <2>2, AppliedEnds
<1>3. CASE SyncRegisters
  <2>1. /\ sync.step # "idle" /\ UNCHANGED chain /\ registered' = sync.matches
        /\ SyncEnds(TRUE)
    BY <1>3 DEF SyncRegisters
  <2> QED  BY <2>1, AppliedEnds
<1>4. CASE SyncFails
  <2>1. page'[p].step = "failed"
    BY <1>t, <1>4, EndType DEF SyncFails
  <2> QED  BY <2>1
<1>5. CASE page'[p] = page[p]
  BY <1>5
<1>6. CASE page'[p] = Kept(granted, granted')[p]
  BY <1>t, <1>6, KeptFacts
<1>7. ASSUME NEW x \in Pages, NEW r \in PageStates, page' = Applying(x, r)
      PROVE  page'[p].step = "syncing"
  BY <1>t, <1>7, Applies
<1>8. ASSUME NEW x \in Pages, page[x].step # "syncing", PageGranted(x) \/ PageDenied(x)
      PROVE  FALSE
  <2>1. CASE PageGranted(x)
    <3>1. page[x] \in PageStates /\ page' = Applying(x, page[x])
      BY <1>t, <2>1 DEF PageGranted
    <3> QED  BY <1>7, <3>1
  <2>2. CASE PageDenied(x)
    BY <1>t, <1>5, <1>8, <2>2 DEF PageDenied
  <2> QED  BY <1>8, <2>1, <2>2
<1>9. ASSUME NEW x \in Pages, NEW patterns, Asks(x, patterns), page[x].step # "syncing"
      PROVE  FALSE
  BY <1>t, <1>5, <1>9 DEF Asks, Asking
<1>10. ASSUME NEW x \in Pages, NEW patterns \in SUBSET Origins, Revokes(x, patterns)
       PROVE  FALSE
  <2> DEFINE r == [step |-> "idle", kind |-> "revoke", patterns |-> patterns, kept |-> {}]
  <2>1. r \in PageStates
    BY DEF PageStates
  <2>2. page' = Applying(x, r)
    BY <1>10 DEF Revokes
  <2> HIDE DEF r
  <2> QED  BY <1>7, <2>1, <2>2
<1>11. ASSUME NEW x \in Pages,
              \/ AskSite(x) \/ AskUndo(x)
              \/ \E o \in Players : AskPlayer(x, o)
              \/ PageGranted(x) \/ PageDenied(x)
              \/ \E o \in Origins : RevokeSite(x, o)
              \/ RevokeListed(x)
       PROVE  FALSE
  <2>1. granted \in SUBSET Origins
    BY DEF TypeInv, TypeOK
  <2>2. PageGranted(x) \/ PageDenied(x) => page[x].step # "syncing"
    BY DEF PageGranted, PageDenied
  <2> QED
    BY <1>8, <1>9, <1>10, <1>11, <2>1, <2>2
    DEF AskSite, AskUndo, AskPlayer, RevokeSite, RevokeListed
<1>12. CASE \/ \E q \in prompts : PromptGranted(q)
            \/ \E o \in Origins : RevokedOutside(o)
  BY <1>6, <1>12 DEF PromptGranted, RevokedOutside
<1>13. CASE Stop
  <2>1. page'[p].step = "failed"
    BY <1>t, <1>13 DEF Stop, PageStates
  <2> QED  BY <2>1
<1>14. CASE \/ SyncStarts \/ PermissionEvent \/ Wake \/ Tick \/ UNCHANGED vars
            \/ \E d \in Docs, o \in Players : Report(d, o)
            \/ \E c \in calls : Decide(c)
            \/ \E q \in prompts : PromptDenied(q)
  BY <1>5, <1>14
  DEF SyncStarts, PermissionEvent, Wake, Tick, Report, Decide, PromptDenied, vars
<1> QED
  BY <1>1, <1>2, <1>3, <1>4, <1>11, <1>12, <1>13, <1>14 DEF Next, Sync, Done

\* A page that is told its change was applied finds it applied, unless somebody has changed it since.
THEOREM ChangesCorrect == Spec => ChangesApplied
<1> DEFINE Applied ==
      \A p \in Pages :
        page[p].step = "syncing" /\ page'[p].step = "done" =>
          IF page[p].kind = "grant" THEN page[p].kept \subseteq registered'
                                    ELSE page[p].kept \cap registered' = {}
<1>1. Init => Waits /\ Promised
  BY DEF Init, Waits, Promised, Works, Mine, Nobody, Idle, Resting
<1>2. TypeInv /\ Waits /\ Promised /\ [Next]_vars => [Applied]_vars
  BY AppliedStep DEF Holds
<1> QED
  BY <1>1, <1>2, TypeCorrect, PromisingStep, PTL DEF Spec, ChangesApplied
=============================================================================
