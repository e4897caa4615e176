----------------------------- MODULE Composition -----------------------------
(***************************************************************************)
(* The published plugin composition of a runtime: Mount and Unmount        *)
(* replace the current snapshot, callers lease snapshots or single mounts, *)
(* a retired mount closes its connection when its last reference is gone,  *)
(* and closing the runtime waits for the work it admitted and for the      *)
(* connections it retired.                                                 *)
(*                                                                         *)
(* The mutex of the runtime is modelled as it is held: a snapshot is       *)
(* acquired mount by mount under it, while leases are released mount by    *)
(* mount without it.                                                       *)
(***************************************************************************)
EXTENDS Integers, Sequences, FiniteSets

CONSTANTS
    Plugins,        \* plugins that sources offer
    Resources,      \* names of plugins, tools, providers, events...
    Provides,       \* what a plugin contributes, its own name included
    Requires,       \* the requirements of its manifest and of its agents
    Conflicts,      \* the conflicts of its manifest
    Targets,        \* the plugin events its hooks and subscribers name
    Procs,          \* goroutines that use the runtime
    Free,           \* nobody holds the mutex
    MaxMounts       \* bound: sources opened

ASSUME CompositionAssumption ==
    /\ Provides \in [Plugins -> SUBSET Resources]
    /\ Requires \in [Plugins -> SUBSET Resources]
    /\ Conflicts \in [Plugins -> SUBSET Resources]
    /\ Targets \in [Plugins -> SUBSET Resources]
    /\ IsFiniteSet(Procs) /\ Free \notin Procs /\ MaxMounts \in Nat

VARIABLES
    mounts,         \* every mountState there has been
    current,        \* the published snapshot: the mounts in it
    closed,         \* the runtime is closed
    mu,             \* who holds runtime.mu
    proc,           \* what each goroutine is doing
    lease,          \* the leases it has: on a snapshot, on a part of it
    pinned,         \* the snapshot a resumed session is pinned to
    closer          \* the goroutine of finishClose and the mounts it waits for

vars == <<mounts, current, closed, mu, proc, lease, pinned, closer>>

Kinds == {"turn", "resume", "resumed", "invoke", "mount", "unmount"}

\* beginTrajectoryWork counts these, and finishClose waits for them.
Counted == {"turn", "resume", "resumed"}

Slots == {"snap", "own"}

MountIds == 1..MaxMounts

\* closers counts the goroutines startCloseLocked has started and that have not
\* called Close yet; closes counts the calls of Close.
MountState == [plugin : Plugins, refs : Nat, retired : BOOLEAN,
               closing : BOOLEAN, closers : Nat, closes : Nat]

Lease == [mounts : SUBSET MountIds, released : BOOLEAN]

NoLease == [mounts |-> {}, released |-> TRUE]

\* todo is what is left of the loop the goroutine is in.
Proc == [pc : {"idle", "begun", "acquire", "derive", "work", "release",
               "deferred", "opened", "discard"},
         kind : Kinds, slot : Slots, todo : SUBSET MountIds, mount : 0..MaxMounts]

Idle == [pc |-> "idle", kind |-> "turn", slot |-> "snap", todo |-> {}, mount |-> 0]

Init ==
    /\ mounts = <<>> /\ current = {} /\ closed = FALSE /\ mu = Free
    /\ proc = [h \in Procs |-> Idle]
    /\ lease = [h \in Procs |-> [s \in Slots |-> NoLease]]
    /\ pinned = {} /\ closer = [pc |-> "none", waits |-> {}]

----------------------------------------------------------------------------
(***************************************************************************)
(* mountState.                                                             *)
(***************************************************************************)
NewMount(p) ==
    [plugin |-> p, refs |-> 0, retired |-> FALSE, closing |-> FALSE,
     closers |-> 0, closes |-> 0]

StartClose(r) ==
    IF ~r.retired \/ r.refs # 0 \/ r.closing THEN r
    ELSE [r EXCEPT !.closing = TRUE, !.closers = @ + 1]

Referred(r) == [r EXCEPT !.refs = @ + 1]

\* A release without a reference is noted as an error and changes nothing else.
Released(r) ==
    IF r.refs = 0 THEN StartClose(r) ELSE StartClose([r EXCEPT !.refs = @ - 1])

Retired(r) == StartClose([r EXCEPT !.retired = TRUE])

ConnectionClosed(r) == [r EXCEPT !.closes = @ + 1]

\* The goroutine of startCloseLocked.
CloseConnection(m) ==
    /\ mounts[m].closers > 0
    /\ mounts' = [mounts EXCEPT ![m] = [ConnectionClosed(mounts[m]) EXCEPT !.closers = @ - 1]]
    /\ UNCHANGED <<current, closed, mu, proc, lease, pinned, closer>>

----------------------------------------------------------------------------
(***************************************************************************)
(* registrySnapshot.                                                       *)
(***************************************************************************)
Names(S) == {mounts[m].plugin : m \in S}

ResourcesOf(P) == UNION {Provides[p] : p \in P}

\* validatePluginResources and validateAgentResources for every plugin of P.
Valid(P) ==
    \A p \in P : Conflicts[p] \cap ResourcesOf(P) = {} /\ Requires[p] \subseteq ResourcesOf(P)

\* Variant: a plugin's own conflicts are tested, those of the others are not.
AddsOneSided(p) ==
    LET P == Names(current) IN
    /\ p \notin P /\ Provides[p] \cap ResourcesOf(P) = {}
    /\ Conflicts[p] \cap ResourcesOf(P \cup {p}) = {}
    /\ (Requires[p] \cup Targets[p]) \subseteq ResourcesOf(P \cup {p})

\* What add accepts.  An event that a hook or a subscriber targets has to be
\* there when its plugin is added; validateComposition does not ask for it again.
Adds(p) ==
    LET P == Names(current) IN
    /\ p \notin P /\ Provides[p] \cap ResourcesOf(P) = {}
    /\ Valid(P \cup {p}) /\ Targets[p] \subseteq ResourcesOf(P \cup {p})

----------------------------------------------------------------------------
(***************************************************************************)
(* Leases.                                                                 *)
(***************************************************************************)

\* acquireMountsLocked begins, under the mutex.
Acquire(h, kind, slot, S, m) ==
    /\ mu = Free /\ mu' = h
    /\ proc' = [proc EXCEPT ![h] = [pc |-> "acquire", kind |-> kind, slot |-> slot,
                                    todo |-> S, mount |-> m]]
    /\ lease' = [lease EXCEPT ![h][slot] = [mounts |-> {}, released |-> FALSE]]

\* Variant: release does not remember that it was called before.
ReleasingAgain(l) == l.mounts

\* What a call of release has to give back.
Releasing(l) == IF l.released THEN {} ELSE l.mounts

\* A call of release begins.
Release(h, slot) ==
    /\ proc' = [proc EXCEPT ![h].pc = "release", ![h].slot = slot,
                            ![h].todo = Releasing(lease[h][slot])]
    /\ lease' = [lease EXCEPT ![h][slot].released = TRUE]

\* Variant: acquire does not test the closing flag.
AcquireClosing(h) ==
    /\ proc[h].pc = "acquire"
    /\ \E m \in proc[h].todo :
          /\ mounts' = [mounts EXCEPT ![m] = Referred(@)]
          /\ lease' = [lease EXCEPT ![h][proc[h].slot].mounts = @ \cup {m}]
          /\ proc' = [proc EXCEPT ![h].todo = @ \ {m}]
    /\ UNCHANGED <<current, closed, mu, pinned, closer>>

\* One mount of the loop: a mount that is closing ends it, and the mounts
\* acquired before are given back.
AcquireMount(h) ==
    /\ proc[h].pc = "acquire"
    /\ \E m \in proc[h].todo :
          IF mounts[m].closing
          THEN Release(h, proc[h].slot) /\ UNCHANGED mounts
          ELSE /\ mounts' = [mounts EXCEPT ![m] = Referred(@)]
               /\ lease' = [lease EXCEPT ![h][proc[h].slot].mounts = @ \cup {m}]
               /\ proc' = [proc EXCEPT ![h].todo = @ \ {m}]
    /\ UNCHANGED <<current, closed, mu, pinned, closer>>

\* A caller has its lease: it works, or goes on to lease a part of the snapshot,
\* or gives the snapshot back once it has that part.
Acquired(h) ==
    /\ proc[h].pc = "acquire" /\ proc[h].todo = {}
    /\ proc[h].kind \notin {"mount", "unmount"}
    /\ mu' = Free
    /\ IF proc[h].slot = "own" THEN Release(h, "snap")
       ELSE /\ proc' = [proc EXCEPT ![h].pc =
                           IF proc[h].kind = "turn" THEN "work" ELSE "derive"]
            /\ UNCHANGED lease
    /\ UNCHANGED <<mounts, current, closed, pinned, closer>>

\* One mount of the loop of release, or of giving back after a failure.
ReleaseMount(h) ==
    /\ proc[h].pc = "release"
    /\ \E m \in proc[h].todo :
          /\ mounts' = [mounts EXCEPT ![m] = Released(@)]
          /\ proc' = [proc EXCEPT ![h].todo = @ \ {m}]
    /\ UNCHANGED <<current, closed, mu, lease, pinned, closer>>

\* The loop is over.  A caller that failed to lease its part gives the snapshot
\* back; a resume runs its deferred release; everybody else goes on or returns.
ReleaseDone(h) ==
    LET p == proc[h] IN
    /\ p.pc = "release" /\ p.todo = {}
    /\ mu' = IF mu = h THEN Free ELSE mu
    /\ \/ /\ p.slot = "own" /\ mu = h
          /\ Release(h, "snap")
       \/ /\ p.slot = "own" /\ mu # h /\ p.kind = "resume"
          /\ proc' = [proc EXCEPT ![h].pc = "deferred"] /\ UNCHANGED lease
       \/ /\ p.slot = "snap" /\ ~lease[h]["own"].released
          /\ proc' = [proc EXCEPT ![h].pc = "work"]
          /\ lease' = [lease EXCEPT ![h]["snap"] = NoLease]
       \/ /\ p.slot = "snap" => lease[h]["own"].released
          /\ p.slot = "own" => mu # h /\ p.kind # "resume"
          /\ proc' = [proc EXCEPT ![h] = IF mu = h /\ p.kind = "mount"
                                         THEN [p EXCEPT !.pc = "discard"] ELSE Idle]
          /\ lease' = [lease EXCEPT ![h] = [s \in Slots |-> NoLease]]
    /\ UNCHANGED <<mounts, current, closed, pinned, closer>>

----------------------------------------------------------------------------
(***************************************************************************)
(* Callers: the turns of a session, the resume of a session and the        *)
(* invocation of one mount (a capability, a subscriber).                   *)
(***************************************************************************)

\* beginTrajectoryWork; InvokeCapability has no such gate.
Begin(h, kind) ==
    /\ proc[h] = Idle /\ mu = Free /\ kind \in {"turn", "resume", "invoke"}
    /\ kind \in Counted => ~closed
    /\ proc' = [proc EXCEPT ![h].pc = "begun", ![h].kind = kind]
    /\ UNCHANGED <<mounts, current, closed, mu, lease, pinned, closer>>

\* acquireSnapshot and, for the turn of a pinned session,
\* acquireRegistrySnapshot: refused on a closed runtime.
AcquireSnapshot(h) ==
    /\ proc[h].pc = "begun" /\ mu = Free
    /\ IF closed THEN proc' = [proc EXCEPT ![h] = Idle] /\ UNCHANGED <<mu, lease>>
       ELSE \E S \in {current} \cup (IF proc[h].kind = "turn" THEN {pinned} ELSE {}) :
               Acquire(h, proc[h].kind, "snap", S, 0)
    /\ UNCHANGED <<mounts, current, closed, pinned, closer>>

\* The owner of a resource, or the owners of the resources a session was
\* recorded with, are leased from the snapshot.  They may not be in it, or the
\* runtime is closed: then the snapshot is given back.
AcquirePart(h) ==
    /\ proc[h].pc = "derive"
    /\ \/ Release(h, "snap") /\ UNCHANGED mu
       \/ /\ ~closed
          /\ \E S \in SUBSET lease[h]["snap"].mounts :
                /\ proc[h].kind = "invoke" => Cardinality(S) = 1
                /\ Acquire(h, proc[h].kind, "own", S, 0)
    /\ UNCHANGED <<mounts, current, closed, pinned, closer>>

\* The call is over.  A resume that moved the head has used its lease for that;
\* the session it returns is pinned to the snapshot and keeps no lease.
WorkDone(h) ==
    LET slot == IF proc[h].kind = "turn" THEN "snap" ELSE "own" IN
    /\ proc[h].pc = "work"
    /\ Release(h, slot)
    /\ pinned' = IF proc[h].kind = "resume" THEN lease[h]["own"].mounts ELSE pinned
    /\ UNCHANGED <<mounts, current, closed, mu, closer>>

\* The deferred release of ResumeSession.
DeferredRelease(h) ==
    /\ proc[h].pc = "deferred"
    /\ proc' = [proc EXCEPT ![h].pc = "release", ![h].kind = "resumed",
                            ![h].todo = Releasing(lease[h]["own"])]
    /\ lease' = [lease EXCEPT ![h]["own"].released = TRUE]
    /\ UNCHANGED <<mounts, current, closed, mu, pinned, closer>>

----------------------------------------------------------------------------
(***************************************************************************)
(* Mount, Unmount, Close.                                                  *)
(***************************************************************************)

\* source.Open, and Install into the staging registrar.
OpenSource(h, p) ==
    /\ proc[h] = Idle /\ Len(mounts) < MaxMounts
    /\ mounts' = Append(mounts, NewMount(p))
    /\ proc' = [proc EXCEPT ![h].pc = "opened", ![h].kind = "mount",
                            ![h].mount = Len(mounts) + 1]
    /\ UNCHANGED <<current, closed, mu, lease, pinned, closer>>

\* Mount under the mutex: a closed runtime and an invalid composition are
\* refused, else the lease for the lifecycle event is acquired.
Mount(h) ==
    /\ proc[h].pc = "opened" /\ mu = Free
    /\ IF closed \/ ~Adds(mounts[proc[h].mount].plugin)
       THEN proc' = [proc EXCEPT ![h].pc = "discard"] /\ UNCHANGED <<mu, lease>>
       ELSE Acquire(h, "mount", "snap", current \cup {proc[h].mount}, proc[h].mount)
    /\ UNCHANGED <<mounts, current, closed, pinned, closer>>

\* Variant: Mount returns its error and leaves the connection open.
DiscardOpen(h) ==
    /\ proc[h].pc = "discard"
    /\ proc' = [proc EXCEPT ![h] = Idle]
    /\ UNCHANGED <<mounts, current, closed, mu, lease, pinned, closer>>

\* closeOnError.
Discard(h) ==
    /\ proc[h].pc = "discard"
    /\ mounts' = [mounts EXCEPT ![proc[h].mount] = ConnectionClosed(@)]
    /\ proc' = [proc EXCEPT ![h] = Idle]
    /\ UNCHANGED <<current, closed, mu, lease, pinned, closer>>

\* Unmount, through the handle Mount returned: refused when what is left would
\* miss a requirement.
Unmount(h, m) ==
    /\ proc[h] = Idle /\ m \in current
    /\ \A g \in Procs : proc[g].kind = "mount" => proc[g].mount # m
    /\ Valid(Names(current \ {m}))
    /\ Acquire(h, "unmount", "snap", current \ {m}, m)
    /\ UNCHANGED <<mounts, current, closed, pinned, closer>>

\* The next snapshot is published, and what it does not contain is retired;
\* then the lifecycle event is dispatched and its lease released.  Preparing
\* that event fails only for an event that is not registered or a payload that
\* is no JSON object: plugin_mounted and plugin_unmounted are builtin and never
\* leave a snapshot, and the payload is a struct of three strings and a number.
Publish(h) ==
    /\ proc[h].pc = "acquire" /\ proc[h].todo = {}
    /\ proc[h].kind \in {"mount", "unmount"}
    /\ mu' = Free /\ current' = lease[h]["snap"].mounts
    /\ mounts' = IF proc[h].kind = "mount" THEN mounts
                 ELSE [mounts EXCEPT ![proc[h].mount] = Retired(@)]
    /\ Release(h, "snap")
    /\ UNCHANGED <<closed, pinned, closer>>

\* RequestClose: the first call retires the composition.
RequestClose ==
    /\ mu = Free /\ ~closed
    /\ closed' = TRUE /\ current' = {}
    /\ mounts' = [m \in DOMAIN mounts |->
                     IF m \in current THEN Retired(mounts[m]) ELSE mounts[m]]
    /\ closer' = [pc |-> "work", waits |-> current]
    /\ UNCHANGED <<mu, proc, lease, pinned>>

\* Variant: finishClose does not wait for the work groups.
FinishWorkEarly ==
    /\ closer.pc = "work"
    /\ closer' = [closer EXCEPT !.pc = "mounts"]
    /\ UNCHANGED <<mounts, current, closed, mu, proc, lease, pinned>>

\* finishClose waits for the work that was admitted...
FinishWork ==
    /\ closer.pc = "work"
    /\ \A h \in Procs : proc[h].kind \in Counted => proc[h].pc = "idle"
    /\ closer' = [closer EXCEPT !.pc = "mounts"]
    /\ UNCHANGED <<mounts, current, closed, mu, proc, lease, pinned>>

\* ... and for the retired mounts, then it closes the storage.
FinishMounts ==
    /\ closer.pc = "mounts"
    /\ \A m \in closer.waits : mounts[m].closes > 0
    /\ closer' = [closer EXCEPT !.pc = "done"]
    /\ UNCHANGED <<mounts, current, closed, mu, proc, lease, pinned>>

Step(h) ==
    \/ \E kind \in Kinds : Begin(h, kind)
    \/ AcquireSnapshot(h) \/ AcquirePart(h) \/ AcquireMount(h) \/ Acquired(h)
    \/ ReleaseMount(h) \/ ReleaseDone(h) \/ WorkDone(h) \/ DeferredRelease(h)
    \/ \E p \in Plugins : OpenSource(h, p)
    \/ Mount(h) \/ Discard(h) \/ (\E m \in current : Unmount(h, m)) \/ Publish(h)

Next ==
    \/ \E h \in Procs : Step(h)
    \/ \E m \in DOMAIN mounts : CloseConnection(m)
    \/ RequestClose \/ FinishWork \/ FinishMounts

Spec == Init /\ [][Next]_vars

----------------------------------------------------------------------------
(***************************************************************************)
(* Properties.                                                             *)
(***************************************************************************)

\* Every variable has its type.
TypeOK ==
    /\ mounts \in Seq(MountState) /\ Len(mounts) <= MaxMounts
    /\ current \subseteq DOMAIN mounts /\ closed \in BOOLEAN
    /\ mu \in Procs \cup {Free} /\ proc \in [Procs -> Proc]
    /\ lease \in [Procs -> [Slots -> Lease]]
    /\ pinned \subseteq DOMAIN mounts
    /\ closer \in [pc : {"none", "work", "mounts", "done"}, waits : SUBSET MountIds]

\* The mounts a goroutine has acquired and not given back yet under a lease.
Held(h, s) ==
    IF proc[h].pc = "release" /\ proc[h].slot = s THEN proc[h].todo
    ELSE IF lease[h][s].released THEN {} ELSE lease[h][s].mounts

\* "Retired plugin connections close only after every snapshot lease that
\* references them has been released": whatever a goroutine holds is neither
\* closed nor being closed, also after sessions re-acquired old snapshots.
NoUseAfterClose ==
    \A h \in Procs, s \in Slots : \A m \in Held(h, s) :
        ~mounts[m].closing /\ mounts[m].closes = 0

\* The references counted by a mount are those that are held, through partly
\* failed acquisitions and repeated releases.
RefsExact ==
    \A m \in DOMAIN mounts :
        mounts[m].refs = Cardinality({x \in Procs \X Slots : m \in Held(x[1], x[2])})

\* The published composition satisfies every requirement and conflict and has
\* no plugin twice, in whatever order plugins come and go; a retired mount is
\* never in it, and a closed runtime has none.
CompositionValid ==
    /\ Valid(Names(current))
    /\ \A m, n \in current : mounts[m].plugin = mounts[n].plugin => m = n
    /\ \A m \in current : ~mounts[m].retired
    /\ closed => current = {}

\* The storage outlives the work: when finishClose has closed it, no turn and no
\* resume is under way, and none holds a mount the runtime retired.
StorageOutlivesWork ==
    closer.pc = "done" =>
        /\ \A h \in Procs : proc[h].kind \in Counted => proc[h].pc = "idle"
        /\ \A h \in Procs, s \in Slots : Held(h, s) \cap closer.waits = {}

\* Nothing leaks: once a closed runtime is quiet, every connection it ever opened
\* is closed or being closed, those of mounts that raced with Close too.
NothingLeaks ==
    closed /\ (\A h \in Procs : proc[h].pc = "idle") =>
        \A m \in DOMAIN mounts : mounts[m].closers + mounts[m].closes = 1

=============================================================================
