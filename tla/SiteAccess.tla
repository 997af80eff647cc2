----------------------------- MODULE SiteAccess -----------------------------
(***************************************************************************)
(* Which sites the extension's scripts run on: the grants the browser      *)
(* keeps, the persistent registration of the site scripts that has to      *)
(* follow them, the prompts for the players embedded from other origins,   *)
(* and the pages (popup, grant page, options) that change the grants.      *)
(*                                                                         *)
(* The background worker can be stopped by the browser at any time: it     *)
(* loses its queue, its prompts and its memory of them, and synchronizes   *)
(* again when an event wakes it.  Time passes in ticks.                    *)
(***************************************************************************)
EXTENDS Integers, Sequences, FiniteSets, SequencesExt

CONSTANTS
  Origins,    \* the origins that can be granted
  Players,    \* those that are embedded as players
  Docs,       \* documents that embed the players
  Pages,      \* extension pages: each makes one change of the grants
  Cooldown,   \* ticks between two prompts for an origin (cooldownMs)
  Stale,      \* ticks after which an unanswered prompt is forgotten (stalePendingMs)
  MaxTime,    \* bound: ticks
  MaxQueue,   \* bound: synchronizations waiting
  MaxFails,   \* bound: failed browser calls in a synchronization
  MaxStops,   \* bound: times the browser stops the worker
  MaxOutside  \* bound: grants taken back outside the extension

ASSUME SiteAccessAssumption ==
  /\ Players \subseteq Origins
  /\ {Cooldown, Stale, MaxQueue} \subseteq Nat \ {0}
  /\ Cooldown <= Stale
  /\ {MaxTime, MaxFails, MaxStops, MaxOutside} \subseteq Nat

VARIABLES
  granted,    \* the browser's grants
  registered, \* the origins the site scripts are registered for, persistent
  alive,      \* the background worker runs
  chain,      \* owners of the synchronizations that wait, oldest first
  sync,       \* the synchronization that runs, or Idle
  failed,     \* history: the last synchronization failed
  events,     \* permission events the worker has not been told of yet
  now,        \* the time
  calls,      \* requests of documents between the worker's lookup and its decision
  prompts,    \* open permission prompts of the worker
  promptedAt, \* per player: when it was last prompted, or Never (lastPrompted)
  pending,    \* per player: when the prompt that counts as open was opened, or Never
  waiting,    \* the prompts answered with a grant that wait for their synchronization
  page,       \* per extension page: what it is doing
  fails, stops, outside \* how often the bounded events have happened

vars == <<granted, registered, alive, chain, sync, failed, events, now, calls, prompts,
          promptedAt, pending, waiting, page, fails, stops, outside>>

grants == <<granted, events, outside>>
syncing == <<registered, chain, sync, failed, fails>>
asking == <<calls, prompts, promptedAt, pending, waiting>>

-----------------------------------------------------------------------------
(* Shapes                                                                  *)

Never == -1
Times == {Never} \cup 0..MaxTime

\* An owner of a synchronization: a page, a prompt, or nobody who waits for it.
Nobody == <<"nobody">>
Prompt(o, t) == [origin |-> o, at |-> t]
AllPrompts == [origin : Players, at : 0..MaxTime]
Owners == {Nobody} \cup ({"page"} \X Pages) \cup ({"prompt"} \X AllPrompts)

Idle == [step |-> "idle", owner |-> Nobody, matches |-> {}]
Running(owner, step, matches) == [step |-> step, owner |-> owner, matches |-> matches]

\* What a page does, the patterns it does it for, and (history) those nobody has changed since.
Resting == [step |-> "idle", kind |-> "none", patterns |-> {}, kept |-> {}]

TypeOK ==
  /\ granted \subseteq Origins /\ registered \subseteq Origins
  /\ alive \in BOOLEAN /\ failed \in BOOLEAN
  /\ chain \in Seq(Owners) /\ Len(chain) <= MaxQueue + 1
  /\ sync \in [step : {"idle", "list", "unregister", "register"},
               owner : Owners, matches : SUBSET Origins]
  /\ events \in 0..(MaxQueue + 1) /\ now \in 0..MaxTime
  /\ calls \subseteq [doc : Docs, origin : Players, covered : BOOLEAN]
  /\ prompts \subseteq AllPrompts /\ waiting \subseteq AllPrompts
  /\ promptedAt \in [Players -> Times] /\ pending \in [Players -> Times]
  /\ page \in [Pages -> [step : {"idle", "asking", "syncing", "done", "failed"},
                         kind : {"none", "grant", "revoke"},
                         patterns : SUBSET Origins, kept : SUBSET Origins]]
  /\ fails \in 0..MaxFails /\ stops \in 0..MaxStops /\ outside \in 0..MaxOutside

\* A fresh worker synchronizes when its module is evaluated.
Init ==
  /\ granted = {} /\ registered = {}
  /\ alive = TRUE /\ chain = <<Nobody>> /\ sync = Idle /\ failed = FALSE
  /\ events = 0 /\ now = 0
  /\ calls = {} /\ prompts = {} /\ waiting = {}
  /\ promptedAt = [o \in Players |-> Never] /\ pending = [o \in Players |-> Never]
  /\ page = [p \in Pages |-> Resting]
  /\ fails = 0 /\ stops = 0 /\ outside = 0

-----------------------------------------------------------------------------
(* The grants: every change of them is announced to the worker             *)

\* What a waiting page was promised: a later change by somebody else releases it.
Kept(before, after) ==
  [p \in Pages |->
     IF page[p].step /= "syncing" THEN page[p]
     ELSE IF page[p].kind = "grant" THEN [page[p] EXCEPT !.kept = @ \ (before \ after)]
     ELSE [page[p] EXCEPT !.kept = @ \ (after \ before)]]

\* permissions.request and permissions.remove, and the event that follows a change.
GrantsBecome(after) ==
  /\ granted' = after
  /\ events' = IF after = granted THEN events ELSE events + 1

Room == Len(chain) < MaxQueue /\ events < MaxQueue

-----------------------------------------------------------------------------
(* The registration follows the grants (site-access-registration.ts)       *)

\* mutant: a synchronization that is under way or waits is taken to be enough.
EnqueueUnlessBusy(owner) ==
  chain' = IF sync.step = "idle" /\ chain = <<>> THEN <<owner>> ELSE chain

\* updateSiteAccess: one synchronization at a time, in the order they were asked for.
Enqueue(owner) == chain' = Append(chain, owner)

\* permissions.onAdded and onRemoved.
PermissionEvent ==
  /\ alive /\ events > 0 /\ Len(chain) < MaxQueue
  /\ events' = events - 1
  /\ Enqueue(Nobody)
  /\ UNCHANGED <<granted, registered, alive, sync, failed, now, asking, page,
                 fails, stops, outside>>

\* getGrantedPatterns: the grants as they are when it starts.
SyncStarts ==
  /\ alive /\ sync.step = "idle" /\ chain /= <<>>
  /\ sync' = Running(Head(chain), "list", granted)
  /\ chain' = Tail(chain)
  /\ UNCHANGED <<registered, failed, fails, grants, asking, alive, now, page, stops>>

\* The owner of a synchronization goes on: a page is answered, a prompt injects and reports.
Answered(ok) ==
  /\ page' = IF sync.owner[1] = "page"
               THEN [page EXCEPT ![sync.owner[2]].step = IF ok THEN "done" ELSE "failed"]
               ELSE page
  /\ waiting' = IF sync.owner[1] = "prompt" THEN waiting \ {sync.owner[2]} ELSE waiting

SyncEnds(ok) ==
  /\ sync' = Idle
  /\ failed' = ~ok
  /\ Answered(ok)

\* Both scripts are registered, as they are wanted, for exactly these patterns.
IsCurrent == registered = sync.matches

\* The registered scripts are read and compared: nothing to do, or what to do first.
SyncLists ==
  /\ sync.step = "list"
  /\ LET Next(step) == /\ sync' = [sync EXCEPT !.step = step]
                       /\ UNCHANGED <<failed, page, waiting>>
     IN CASE IsCurrent -> SyncEnds(TRUE)
          [] registered = {} /\ sync.matches /= {} -> Next("register")
          [] OTHER -> Next("unregister")
  /\ UNCHANGED <<registered, chain, fails, grants, calls, prompts, promptedAt, pending, alive, now,
                 stops>>

SyncUnregisters ==
  /\ sync.step = "unregister"
  /\ registered' = {}
  /\ IF sync.matches = {}
       THEN SyncEnds(TRUE)
       ELSE sync' = [sync EXCEPT !.step = "register"] /\ UNCHANGED <<failed, page, waiting>>
  /\ UNCHANGED <<chain, fails, grants, calls, prompts, promptedAt, pending, alive, now, stops>>

SyncRegisters ==
  /\ sync.step = "register"
  /\ registered' = sync.matches
  /\ SyncEnds(TRUE)
  /\ UNCHANGED <<chain, fails, grants, calls, prompts, promptedAt, pending, alive, now, stops>>

\* A browser call of the synchronization rejects: what it had done so far stays.
SyncFails ==
  /\ sync.step /= "idle" /\ fails < MaxFails
  /\ fails' = fails + 1
  /\ SyncEnds(FALSE)
  /\ UNCHANGED <<registered, chain, grants, calls, prompts, promptedAt, pending, alive, now,
                 stops>>

-----------------------------------------------------------------------------
(* Players report themselves and are prompted for                          *)

\* A document sees a player, or the player in fullscreen, and asks the worker, which looks the
\* grant up before it decides.  (A document keeps quiet about an origin for a while, but the
\* one that replaces it asks again.)
Report(d, o) ==
  /\ alive
  /\ ~\E c \in calls : c.doc = d
  /\ calls' = calls \cup {[doc |-> d, origin |-> o, covered |-> o \in granted]}
  /\ UNCHANGED <<grants, syncing, prompts, promptedAt, pending, waiting, alive, now, page, stops>>

\* A prompt for the origin counts as open, or was opened a moment ago.
Suppressed(o) ==
  \/ pending[o] /= Never /\ now - pending[o] < Stale
  \/ promptedAt[o] /= Never /\ now - promptedAt[o] < Cooldown

\* handle: a covered origin is injected at once, a suppressed one does nothing.
Decide(c) ==
  /\ c \in calls
  /\ calls' = calls \ {c}
  /\ IF c.covered \/ Suppressed(c.origin)
       THEN UNCHANGED <<promptedAt, pending, prompts>>
       ELSE /\ promptedAt' = [promptedAt EXCEPT ![c.origin] = now]
            /\ pending' = [pending EXCEPT ![c.origin] = now]
            /\ prompts' = prompts \cup {Prompt(c.origin, now)}
  /\ UNCHANGED <<grants, syncing, waiting, alive, now, page, stops>>

\* mutant: the answer forgets whatever prompt counts as open.
ClearedAny(q) == [pending EXCEPT ![q.origin] = Never]

\* The prompt's own entry is forgotten; one of a newer prompt stays (the token).
Cleared(q) == IF pending[q.origin] = q.at THEN [pending EXCEPT ![q.origin] = Never] ELSE pending

\* The user refuses, or the browser refuses to ask: then the grant page opens.
PromptDenied(q) ==
  /\ q \in prompts
  /\ prompts' = prompts \ {q}
  /\ pending' = Cleared(q)
  /\ UNCHANGED <<grants, syncing, calls, promptedAt, waiting, alive, now, page, stops>>

PromptGranted(q) ==
  /\ q \in prompts /\ Room
  /\ prompts' = prompts \ {q}
  /\ pending' = Cleared(q)
  /\ GrantsBecome(granted \cup {q.origin})
  /\ page' = Kept(granted, granted')
  /\ waiting' = waiting \cup {q}
  /\ Enqueue(<<"prompt", q>>)
  /\ UNCHANGED <<registered, sync, failed, fails, calls, promptedAt, alive, now, stops, outside>>

-----------------------------------------------------------------------------
(* The popup, the grant page and the options page                          *)

Asking(patterns) == [step |-> "asking", kind |-> "grant", patterns |-> patterns, kept |-> {}]

Asks(p, patterns) ==
  /\ page' = [page EXCEPT ![p] = Asking(patterns)]
  /\ UNCHANGED <<grants, syncing, asking, alive, now, stops>>

\* The popup asks for its site with the players it embeds, all in one prompt.
AskSite(p) == page[p].step = "idle" /\ Asks(p, Origins)

\* The grant page asks for one player, when the worker could not prompt for it.
AskPlayer(p, o) == page[p].step = "idle" /\ Asks(p, {o})

\* The options page offers to undo a removal.
AskUndo(p) ==
  /\ page[p].step = "done" /\ page[p].kind = "revoke"
  /\ Asks(p, page[p].patterns)

\* A page has changed the grants and asks the worker to mirror them.
Applying(p, request) ==
  [Kept(granted, granted') EXCEPT ![p] =
     [request EXCEPT !.step = "syncing", !.kept = request.patterns]]

\* mutant: a page joins the synchronization that is under way.
PageGrantedJoins(p) ==
  /\ page[p].step = "asking" /\ Room /\ alive
  /\ GrantsBecome(granted \cup page[p].patterns)
  /\ page' = Applying(p, page[p])
  /\ IF sync.step /= "idle" /\ sync.owner = Nobody
       THEN sync' = [sync EXCEPT !.owner = <<"page", p>>] /\ UNCHANGED chain
       ELSE Enqueue(<<"page", p>>) /\ UNCHANGED sync
  /\ UNCHANGED <<registered, failed, fails, asking, alive, now, stops, outside>>

\* The user answers; a grant is mirrored before the page goes on.
PageGranted(p) ==
  /\ page[p].step = "asking" /\ Room /\ alive
  /\ GrantsBecome(granted \cup page[p].patterns)
  /\ page' = Applying(p, page[p])
  /\ Enqueue(<<"page", p>>)
  /\ UNCHANGED <<registered, sync, failed, fails, asking, alive, now, stops, outside>>

PageDenied(p) ==
  /\ page[p].step = "asking"
  /\ page' = [page EXCEPT ![p].step = "failed"]
  /\ UNCHANGED <<grants, syncing, asking, alive, now, stops>>

Revokes(p, patterns) ==
  /\ page[p].step = "idle" /\ Room /\ alive
  /\ GrantsBecome(granted \ patterns)
  /\ page' = Applying(p, [step |-> "idle", kind |-> "revoke", patterns |-> patterns, kept |-> {}])
  /\ Enqueue(<<"page", p>>)
  /\ UNCHANGED <<registered, sync, failed, fails, asking, alive, now, stops, outside>>

\* The popup takes back its site's own grant, if there is one.
RevokeSite(p, o) == o \in granted /\ Revokes(p, {o})

\* The options page clears every grant it lists.
RevokeListed(p) == granted /= {} /\ Revokes(p, granted)

\* The user takes grants back in the browser's own settings: only the event tells.
RevokedOutside(o) ==
  /\ outside < MaxOutside /\ Room
  /\ o \in granted
  /\ outside' = outside + 1
  /\ GrantsBecome(granted \ {o})
  /\ page' = Kept(granted, granted')
  /\ UNCHANGED <<syncing, asking, alive, now, stops>>

-----------------------------------------------------------------------------
(* The worker's life, and time                                             *)

\* The browser stops the worker: everything it kept in memory is gone, and pages that wait
\* for it learn that their message was lost.
Stop ==
  /\ alive /\ stops < MaxStops
  /\ stops' = stops + 1
  /\ alive' = FALSE
  /\ chain' = <<>> /\ sync' = Idle
  /\ calls' = {} /\ prompts' = {} /\ waiting' = {}
  /\ promptedAt' = [o \in Players |-> Never] /\ pending' = [o \in Players |-> Never]
  /\ page' = [p \in Pages |->
                IF page[p].step = "syncing" THEN [page[p] EXCEPT !.step = "failed"] ELSE page[p]]
  /\ UNCHANGED <<grants, registered, failed, fails, now>>

\* An event starts it again: its module is evaluated, which synchronizes.
Wake ==
  /\ ~alive
  /\ alive' = TRUE
  /\ Enqueue(Nobody)
  /\ UNCHANGED <<grants, registered, sync, failed, fails, asking, now, page,
                 stops>>

Tick ==
  /\ now < MaxTime
  /\ now' = now + 1
  /\ UNCHANGED <<grants, syncing, asking, alive, page, stops>>

\* Everything that is bounded has happened.
Done ==
  /\ now = MaxTime
  /\ UNCHANGED vars

-----------------------------------------------------------------------------
(* The module                                                              *)

Sync == SyncStarts \/ SyncLists \/ SyncUnregisters \/ SyncRegisters

Next ==
  \/ Sync \/ SyncFails \/ PermissionEvent
  \/ \E d \in Docs, o \in Players : Report(d, o)
  \/ \E c \in calls : Decide(c)
  \/ \E q \in prompts : PromptDenied(q) \/ PromptGranted(q)
  \/ \E p \in Pages :
       \/ AskSite(p) \/ AskUndo(p)
       \/ \E o \in Players : AskPlayer(p, o)
       \/ PageGranted(p) \/ PageDenied(p)
       \/ \E o \in Origins : RevokeSite(p, o)
       \/ RevokeListed(p)
  \/ \E o \in Origins : RevokedOutside(o)
  \/ Stop \/ Wake \/ Tick \/ Done

Spec == Init /\ [][Next]_vars

DocsAlike == Permutations(Docs)

-----------------------------------------------------------------------------
(* What the module promises                                                *)

Settled == alive /\ sync.step = "idle" /\ chain = <<>> /\ events = 0

\* Once the worker has worked off what it was asked for, the site scripts are registered for
\* exactly the granted origins, unless the last synchronization failed: no order of grants,
\* revocations, events and restarts leaves an older set behind.
RegistrationFollows == Settled /\ ~failed => registered = granted

\* A page that is told its change was applied finds it applied: what it granted is registered
\* and what it revoked is not, unless somebody has changed that since.
ChangesApplied ==
  [][\A p \in Pages :
       page[p].step = "syncing" /\ page'[p].step = "done" =>
         IF page[p].kind = "grant" THEN page[p].kept \subseteq registered'
                                   ELSE page[p].kept \cap registered' = {}]_vars

\* One doorhanger is enough: while a prompt for a player is open no second one appears until the
\* first counts as forgotten, whatever documents report and whichever older prompt is answered.
OneDoorhanger ==
  \A q, r \in prompts : q.origin = r.origin /\ q.at < r.at => r.at - q.at >= Stale
=============================================================================
