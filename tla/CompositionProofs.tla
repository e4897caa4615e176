-------------------------- MODULE CompositionProofs --------------------------
(***************************************************************************)
(* The structure of the leases, the mounts and the shutdown of the module  *)
(* Composition, which every step keeps: turns, resumes and hooks acquire,  *)
(* derive, use and release leases; plugins are mounted, published,         *)
(* discarded and closed. Then the references that a mount counts, and the  *)
(* theorems about the leases, the published composition and the shutdown,  *)
(* for any number of plugins, mounts and goroutines.                       *)
(***************************************************************************)
EXTENDS Composition, TLAPS

-----------------------------------------------------------------------------
(***************************************************************************)
(* The invariant.                                                          *)
(***************************************************************************)

\* The mounts a goroutine may still acquire, use or give back.
Reach(h) == proc[h].todo \cup lease[h]["snap"].mounts \cup lease[h]["own"].mounts

\* Everything that is pointed at is a mount.
Known ==
    /\ current \subseteq DOMAIN mounts /\ pinned \subseteq DOMAIN mounts
    /\ closer.waits \subseteq DOMAIN mounts
    /\ \A h \in Procs : Reach(h) \subseteq DOMAIN mounts

\* What a goroutine's place in the code says about its leases and the mutex.
Place(h) ==
    LET p == proc[h]  snap == lease[h]["snap"]  own == lease[h]["own"] IN
    /\ p.pc = "idle" => p = Idle
    /\ p.pc \in {"idle", "begun", "opened", "discard"} =>
          snap = NoLease /\ own = NoLease /\ p.todo = {}
    /\ p.pc = "acquire" =>
          /\ mu = h /\ ~lease[h][p.slot].released
          /\ p.todo \cap lease[h][p.slot].mounts = {}
          /\ p.slot = "snap" => own = NoLease
    /\ mu = h => p.pc \in {"acquire", "release"}
    /\ p.pc = "derive" => own = NoLease
    /\ p.pc = "release" =>
          lease[h][p.slot].released /\ (p.slot = "own" /\ mu # h => snap.released)
    /\ p.pc = "work" /\ p.kind # "turn" => snap.released
    /\ p.pc = "deferred" =>
          snap.released /\ own.released /\ p.slot = "own" /\ p.kind = "resume"
    /\ p.kind \in {"mount", "unmount"} => p.slot = "snap" /\ own = NoLease
    /\ p.pc \in {"opened", "discard"} => p.kind = "mount"
    /\ p.kind \in {"mount", "unmount"} => p.pc \in {"opened", "discard", "acquire", "release"}

\* The goroutine has opened a source and its mount is not published.
Mounting(h) ==
    /\ proc[h].kind = "mount"
    /\ proc[h].pc \in {"opened", "discard", "acquire"} \/ (proc[h].pc = "release" /\ mu = h)

\* Nobody can get at the mount any more.
Gone(m) == m \notin current \cup pinned /\ \A g \in Procs : m \notin Reach(g)

\* Nobody but the goroutine that opened it knows the mount.
Private(h) ==
    LET m == proc[h].mount IN
    /\ m \in DOMAIN mounts /\ m \notin current \cup pinned
    /\ ~mounts[m].retired /\ mounts[m].closes = 0
    /\ \A g \in Procs \ {h} : m \notin Reach(g) /\ (Mounting(g) => proc[g].mount # m)

\* A retired mount closes once, when its last reference is gone.
Counts(r) ==
    /\ r.closing => r.retired /\ r.refs = 0 /\ r.closers + r.closes = 1
    /\ r.retired /\ ~r.closing => r.refs > 0 /\ r.closes = 0
    /\ ~r.closing => r.closers = 0

\* A mount that is not retired is published, private, or was discarded.
Owned(m) ==
    ~mounts[m].retired =>
        \/ mounts[m].closes = 0 /\ m \in current
        \/ mounts[m].closes = 0 /\ \E h \in Procs : Mounting(h) /\ proc[h].mount = m
        \/ mounts[m].closes = 1 /\ Gone(m)

\* The goroutine acquires the snapshot it will publish.
Publishing(h) == proc[h].pc = "acquire" /\ proc[h].kind \in {"mount", "unmount"}

\* What is acquired for publication is the current snapshot with or without the
\* mount in question, and passed the checks of Mount or Unmount.
Planned(h) ==
    LET m == proc[h].mount  next == proc[h].todo \cup lease[h]["snap"].mounts IN
    /\ ~closed
    /\ proc[h].kind = "mount" => next = current \cup {m} /\ Adds(mounts[m].plugin)
    /\ proc[h].kind = "unmount" =>
          next = current \ {m} /\ m \in current /\ Valid(Names(current \ {m}))

\* finishClose goes on when the counted work has ended, then when the mounts it
\* waits for have closed.
Shutdown ==
    /\ closer.pc # "none" => closed
    /\ closer.pc \in {"mounts", "done"} =>
          \A h \in Procs : proc[h].kind \in Counted => proc[h].pc = "idle"
    /\ closer.pc = "done" => \A m \in closer.waits : mounts[m].closes > 0

\* The inductive invariant, but for the references.
Structure ==
    /\ TypeOK /\ Known
    /\ \A h \in Procs : Place(h)
    /\ \A h \in Procs : Mounting(h) => Private(h)
    /\ \A m \in DOMAIN mounts : Counts(mounts[m]) /\ Owned(m)
    /\ \A h \in Procs : Publishing(h) => Planned(h)
    /\ CompositionValid /\ Shutdown

-----------------------------------------------------------------------------
(***************************************************************************)
(* Mounts.                                                                 *)
(***************************************************************************)

\* The domain of the mounts.
LEMMA Domains ==
    ASSUME TypeOK
    PROVE  /\ Len(mounts) \in Nat /\ DOMAIN mounts = 1..Len(mounts)
           /\ DOMAIN mounts \subseteq MountIds
           /\ \A m \in DOMAIN mounts : mounts[m] \in MountState
<1>1. mounts \in Seq(MountState) /\ Len(mounts) <= MaxMounts /\ MaxMounts \in Nat
  BY CompositionAssumption DEF TypeOK
<1>2. Len(mounts) \in Nat /\ DOMAIN mounts = 1..Len(mounts)
  BY <1>1
<1>3. DOMAIN mounts \subseteq MountIds
  BY <1>1, <1>2 DEF MountIds
<1> QED BY <1>1, <1>2, <1>3

\* One mount changes.
LEMMA Replaced ==
    ASSUME TypeOK, NEW m \in DOMAIN mounts, NEW r \in MountState,
           mounts' = [mounts EXCEPT ![m] = r]
    PROVE  /\ mounts' \in Seq(MountState) /\ Len(mounts') = Len(mounts)
           /\ DOMAIN mounts' = DOMAIN mounts /\ mounts'[m] = r
           /\ \A n \in DOMAIN mounts : n # m => mounts'[n] = mounts[n]
<1>1. mounts \in Seq(MountState) /\ m \in 1..Len(mounts) /\ DOMAIN mounts = 1..Len(mounts)
  BY Domains DEF TypeOK
<1>2. /\ mounts' \in Seq(MountState) /\ Len(mounts') = Len(mounts)
      /\ \A j \in 1..Len(mounts) : mounts'[j] = IF j = m THEN r ELSE mounts[j]
  BY <1>1
<1>3. DOMAIN mounts' = 1..Len(mounts)
  BY <1>2
<1> QED BY <1>1, <1>2, <1>3

\* Taking a reference, giving one back, retiring and closing keep the counts.
LEMMA Referring ==
    ASSUME NEW r \in MountState, Counts(r), ~r.closing
    PROVE  /\ Referred(r) \in MountState /\ Counts(Referred(r))
           /\ Referred(r).plugin = r.plugin /\ Referred(r).retired = r.retired
           /\ Referred(r).closes = r.closes /\ Referred(r).refs = r.refs + 1
BY DEF MountState, Counts, Referred

\* The record of a mount whose closing is started.
LEMMA Starting ==
    ASSUME NEW r \in MountState
    PROVE  LET q == [r EXCEPT !.closing = TRUE, !.closers = @ + 1] IN
           /\ q \in MountState /\ q.plugin = r.plugin /\ q.retired = r.retired
           /\ q.refs = r.refs /\ q.closes = r.closes
           /\ q.closing = TRUE /\ q.closers = r.closers + 1
<1>1. r.closers + 1 \in Nat
  BY DEF MountState
<1>2. [r EXCEPT !.closing = TRUE, !.closers = @ + 1] \in MountState
  BY <1>1, Zenon DEF MountState
<1>3. LET q == [r EXCEPT !.closing = TRUE, !.closers = @ + 1] IN
      /\ q.plugin = r.plugin /\ q.retired = r.retired /\ q.refs = r.refs /\ q.closes = r.closes
      /\ q.closing = TRUE /\ q.closers = r.closers + 1
  BY Zenon DEF MountState
<1> QED BY <1>2, <1>3, Zenon

\* release counts a mount down, and closes it at the last reference.
LEMMA Releases ==
    ASSUME NEW r \in MountState, Counts(r), r.refs > 0
    PROVE  /\ Released(r) \in MountState /\ Counts(Released(r))
           /\ Released(r).plugin = r.plugin /\ Released(r).retired = r.retired
           /\ Released(r).closes = r.closes /\ Released(r).refs = r.refs - 1
<1> DEFINE q == [r EXCEPT !.refs = @ - 1]
<1>1. /\ q \in MountState /\ q.plugin = r.plugin /\ q.retired = r.retired
      /\ q.closing = r.closing /\ q.closers = r.closers /\ q.closes = r.closes
      /\ q.refs = r.refs - 1 /\ r.refs \in Nat /\ r.closing \in BOOLEAN
      /\ r.closers \in Nat /\ r.closes \in Nat
  BY DEF MountState
<1>2. Released(r) = StartClose(q)
  BY <1>1 DEF Released
<1> HIDE DEF q
<1>3. ~r.closing /\ r.closers = 0 /\ (r.retired => r.closes = 0)
  BY DEF Counts
<1>4. CASE q.retired /\ q.refs = 0
  <2>1. StartClose(q) = [q EXCEPT !.closing = TRUE, !.closers = @ + 1]
    BY <1>1, <1>3, <1>4 DEF StartClose
  <2> DEFINE z == [q EXCEPT !.closing = TRUE, !.closers = @ + 1]
  <2>2. /\ z \in MountState /\ z.plugin = q.plugin /\ z.retired = q.retired
        /\ z.refs = q.refs /\ z.closes = q.closes
        /\ z.closing = TRUE /\ z.closers = q.closers + 1
    BY <1>1, Starting, Zenon
  <2> HIDE DEF z
  <2>3. Counts(z)
    BY <1>1, <1>3, <1>4, <2>2 DEF Counts
  <2> QED BY <1>1, <1>2, <1>4, <2>1, <2>2, <2>3, Zenon DEF z
<1>5. CASE ~ (q.retired /\ q.refs = 0)
  <2>1. StartClose(q) = q
    BY <1>5 DEF StartClose
  <2> QED BY <1>1, <1>2, <1>3, <1>5, <2>1 DEF Counts
<1> QED BY <1>4, <1>5

\* retire closes a mount that is not referenced, and marks the others.
LEMMA Retiring ==
    ASSUME NEW r \in MountState, Counts(r), ~r.retired, r.closes = 0
    PROVE  /\ Retired(r) \in MountState /\ Counts(Retired(r))
           /\ Retired(r).plugin = r.plugin /\ Retired(r).retired
           /\ Retired(r).refs = r.refs /\ Retired(r).closes = 0
<1> DEFINE q == [r EXCEPT !.retired = TRUE]
<1>1. /\ q \in MountState /\ q.plugin = r.plugin /\ q.retired
      /\ q.closing = r.closing /\ q.closers = r.closers /\ q.closes = r.closes
      /\ q.refs = r.refs /\ r.refs \in Nat /\ r.closing \in BOOLEAN
  BY Zenon DEF MountState
<1>2. Retired(r) = StartClose(q)
  BY DEF Retired
<1> HIDE DEF q
<1>3. ~r.closing /\ r.closers = 0
  BY DEF Counts
<1>4. CASE q.refs = 0
  <2>1. StartClose(q) = [q EXCEPT !.closing = TRUE, !.closers = @ + 1]
    BY <1>1, <1>3, <1>4 DEF StartClose
  <2> DEFINE z == [q EXCEPT !.closing = TRUE, !.closers = @ + 1]
  <2>2. /\ z \in MountState /\ z.plugin = q.plugin /\ z.retired = q.retired
        /\ z.refs = q.refs /\ z.closes = q.closes
        /\ z.closing = TRUE /\ z.closers = q.closers + 1
    BY <1>1, Starting, Zenon
  <2> HIDE DEF z
  <2>3. Counts(z)
    BY <1>1, <1>3, <1>4, <2>2 DEF Counts
  <2> QED BY <1>1, <1>2, <1>4, <2>1, <2>2, <2>3, Zenon DEF z
<1>5. CASE q.refs # 0
  <2>1. StartClose(q) = q
    BY <1>5 DEF StartClose
  <2> QED BY <1>1, <1>2, <1>3, <1>5, <2>1 DEF Counts
<1> QED BY <1>4, <1>5

\* A mount with a closer has not been closed.
LEMMA ToClose ==
    ASSUME NEW r \in MountState, Counts(r), r.closers > 0
    PROVE  /\ r.closing /\ r.retired /\ r.refs = 0 /\ r.closers = 1 /\ r.closes = 0
           /\ r.closes + 1 \in Nat /\ r.closers - 1 \in Nat
<1>1. r.closing /\ r.retired /\ r.refs = 0 /\ r.closers + r.closes = 1
  BY DEF Counts, MountState
<1>2. r.closers = 1 /\ r.closes = 0
  BY <1>1 DEF MountState
<1> QED BY <1>1, <1>2

\* The call of Close.
LEMMA Closing ==
    ASSUME NEW r \in MountState, Counts(r), r.closers > 0,
           NEW q, q = [ConnectionClosed(r) EXCEPT !.closers = @ - 1]
    PROVE  /\ q \in MountState /\ Counts(q) /\ r.retired
           /\ q.plugin = r.plugin /\ q.retired = r.retired
           /\ q.refs = r.refs /\ q.closes > 0
<1>1. /\ r.closing /\ r.retired /\ r.refs = 0 /\ r.closers = 1 /\ r.closes = 0
      /\ r.closes + 1 \in Nat /\ r.closers - 1 \in Nat
  BY ToClose, Zenon
<1> PICK c : c = ConnectionClosed(r)
  BY Zenon
<1>2. /\ c \in MountState /\ c.plugin = r.plugin /\ c.retired = r.retired
      /\ c.refs = r.refs /\ c.closes = r.closes + 1
      /\ c.closing = r.closing /\ c.closers = r.closers
  BY <1>1, Zenon DEF MountState, ConnectionClosed
<1>3. c.closers - 1 \in Nat
  BY <1>1, <1>2, Zenon
<1>4. /\ q \in MountState /\ q.plugin = c.plugin /\ q.retired = c.retired
      /\ q.refs = c.refs /\ q.closes = c.closes
      /\ q.closing = c.closing /\ q.closers = c.closers - 1
  BY <1>2, <1>3, Zenon DEF MountState
<1>5. /\ q.closing /\ q.retired /\ q.refs = 0 /\ q.closers = 1 - 1 /\ q.closes = 0 + 1
  BY <1>1, <1>2, <1>4, Zenon
<1>6. Counts(q) /\ q.closes > 0
  <2>1. ASSUME NEW x, x = 1 - 1, NEW y, y = 0 + 1 PROVE x + y = 1 /\ y > 0
    BY <2>1
  <2> QED BY <1>5, <2>1, Zenon DEF Counts
<1> QED BY <1>1, <1>2, <1>4, <1>6, Zenon

-----------------------------------------------------------------------------
(***************************************************************************)
(* References.                                                             *)
(***************************************************************************)

\* No reference changes hands; a new mount has none.
Kept ==
    /\ \A m \in DOMAIN mounts' :
          \/ m \in DOMAIN mounts /\ mounts'[m].refs = mounts[m].refs
          \/ mounts'[m].refs = 0 /\ \A g \in Procs, s \in Slots : m \notin Held(g, s)
    /\ \A g \in Procs, s \in Slots : Held(g, s)' = Held(g, s)

\* What one goroutine holds changes, and with it the references of one mount.
OneMoves(h, t, n) ==
    /\ \A g \in Procs, s \in Slots : g # h \/ s # t => Held(g, s)' = Held(g, s)
    /\ DOMAIN mounts' = DOMAIN mounts
    /\ \A m \in DOMAIN mounts : m # n => mounts'[m].refs = mounts[m].refs

\* The goroutine takes a reference...
Taken(h, t, n) ==
    /\ n \notin Held(h, t) /\ Held(h, t)' = Held(h, t) \cup {n}
    /\ mounts'[n].refs = mounts[n].refs + 1 /\ OneMoves(h, t, n)

\* ... or gives it back.
GivenBack(h, t, n) ==
    /\ n \in Held(h, t) /\ Held(h, t)' = Held(h, t) \ {n}
    /\ mounts'[n].refs = mounts[n].refs - 1 /\ OneMoves(h, t, n)

\* A step keeps the count of references in line with what is held.
Tally ==
    \/ Kept
    \/ \E h \in Procs, t \in Slots, n \in DOMAIN mounts : Taken(h, t, n) \/ GivenBack(h, t, n)

\* What is held is counted.
HeldCounted == \A h \in Procs, s \in Slots : \A m \in Held(h, s) : mounts[m].refs > 0

\* What every step does.
Preserved == Structure' /\ Tally

\* The tally of a step in which nothing changes hands...
LEMMA HeldSame ==
    ASSUME \A m \in DOMAIN mounts' :
              \/ m \in DOMAIN mounts /\ mounts'[m].refs = mounts[m].refs
              \/ mounts'[m].refs = 0 /\ \A g \in Procs, s \in Slots : m \notin Held(g, s),
           \A g \in Procs, s \in Slots : Held(g, s)' = Held(g, s)
    PROVE  Tally
BY Zenon DEF Tally, Kept

\* ... in which a reference is taken...
LEMMA HeldMore ==
    ASSUME NEW h \in Procs, NEW t \in Slots, NEW n \in DOMAIN mounts,
           n \notin Held(h, t), Held(h, t)' = Held(h, t) \cup {n},
           \A g \in Procs, s \in Slots : g # h \/ s # t => Held(g, s)' = Held(g, s),
           DOMAIN mounts' = DOMAIN mounts, mounts'[n].refs = mounts[n].refs + 1,
           \A m \in DOMAIN mounts : m # n => mounts'[m].refs = mounts[m].refs
    PROVE  Tally
BY Zenon DEF Tally, Taken, OneMoves

\* ... and in which one is given back.
LEMMA HeldLess ==
    ASSUME NEW h \in Procs, NEW t \in Slots, NEW n \in DOMAIN mounts,
           n \in Held(h, t), Held(h, t)' = Held(h, t) \ {n},
           \A g \in Procs, s \in Slots : g # h \/ s # t => Held(g, s)' = Held(g, s),
           DOMAIN mounts' = DOMAIN mounts, mounts'[n].refs = mounts[n].refs - 1,
           \A m \in DOMAIN mounts : m # n => mounts'[m].refs = mounts[m].refs
    PROVE  Tally
BY Zenon DEF Tally, GivenBack, OneMoves

-----------------------------------------------------------------------------
(***************************************************************************)
(* Steps that publish, retire, open and discard nothing.                   *)
(***************************************************************************)

\* Mounts keep their plugin and are not retired; those that are not retired do
\* not close.
MountsKept ==
    /\ DOMAIN mounts' = DOMAIN mounts
    /\ \A m \in DOMAIN mounts :
          /\ mounts'[m].plugin = mounts[m].plugin /\ mounts'[m].retired = mounts[m].retired
          /\ ~mounts[m].retired => mounts'[m].closes = mounts[m].closes
          /\ mounts[m].closes > 0 => mounts'[m].closes > 0
          /\ Counts(mounts'[m])

\* Mounts keep their plugins.
PluginsKept == \A m \in DOMAIN mounts : mounts'[m].plugin = mounts[m].plugin

\* The other goroutines stay where they are.
OthersStay(h) ==
    \A g \in Procs \ {h} :
        proc'[g] = proc[g] /\ lease'[g] = lease[g] /\ (mu' = g <=> mu = g)

\* The goroutine goes on; it learns of mounts from the published snapshot and
\* the pinned one, and pins only what it knows.
GoesOn(h) ==
    /\ Place(h)'
    /\ \A m \in Reach(h)' :
          m \in Reach(h) \/ m \in current \/ m \in pinned \/ (Mounting(h) /\ m = proc[h].mount)
    /\ \A m \in pinned' : m \in pinned \/ (m \in Reach(h) /\ ~Mounting(h))
    /\ Mounting(h)' <=> Mounting(h)
    /\ Mounting(h) => proc'[h].mount = proc[h].mount
    /\ Publishing(h)' => Planned(h)'
    /\ proc'[h].kind \in Counted /\ proc'[h].pc # "idle" =>
          ~closed \/ (proc[h].kind \in Counted /\ proc[h].pc # "idle")

\* A step of goroutine h that leaves the runtime and the other goroutines alone.
Quiet(h) ==
    /\ MountsKept /\ OthersStay(h) /\ current' = current /\ closed' = closed
    /\ closer' = closer /\ Tally /\ TypeOK'
    /\ IF h \in Procs THEN GoesOn(h) ELSE pinned' = pinned

\* What the others reach and where they are does not change.
LEMMA Others ==
    ASSUME NEW h, OthersStay(h), NEW g \in Procs \ {h}
    PROVE  /\ Reach(g)' = Reach(g) /\ Mounting(g)' = Mounting(g)
           /\ Publishing(g)' = Publishing(g) /\ Place(g)' = Place(g)
<1>1. proc'[g] = proc[g] /\ lease'[g] = lease[g] /\ (mu' = g <=> mu = g)
  BY DEF OthersStay
<1>2. Reach(g)' = Reach(g)
  BY <1>1 DEF Reach
<1>3. Mounting(g)' = Mounting(g)
  BY <1>1 DEF Mounting
<1>4. Publishing(g)' = Publishing(g)
  BY <1>1 DEF Publishing
<1>5. Place(g)' = Place(g)
  BY <1>1, Zenon DEF Place
<1> QED BY <1>2, <1>3, <1>4, <1>5

\* The names of mounts that keep their plugins.
LEMMA NamesKept ==
    ASSUME PluginsKept, NEW S, S \subseteq DOMAIN mounts
    PROVE  {mounts'[m].plugin : m \in S} = Names(S)
BY DEF PluginsKept, Names

\* A quiet step keeps the pointers, the places, and who knows of what.
LEMMA QuietReach ==
    ASSUME Structure, NEW h, Quiet(h)
    PROVE  /\ Known' /\ \A g \in Procs : Place(g)'
           /\ \A g \in Procs : Mounting(g)' => Private(g)'
           /\ \A m \in DOMAIN mounts' : Counts(mounts'[m]) /\ Owned(m)'
<1>1. /\ OthersStay(h) /\ MountsKept /\ DOMAIN mounts' = DOMAIN mounts
      /\ current' = current /\ closer' = closer
      /\ IF h \in Procs THEN GoesOn(h) ELSE pinned' = pinned
  BY DEF Quiet, MountsKept
<1>2. \A g \in Procs : Mounting(g)' = Mounting(g) /\ (Mounting(g) => proc'[g].mount = proc[g].mount)
  <2>1. ASSUME NEW g \in Procs \ {h}
        PROVE  Mounting(g)' = Mounting(g) /\ proc'[g].mount = proc[g].mount
    BY <1>1, Others DEF OthersStay
  <2>2. h \in Procs => Mounting(h)' = Mounting(h) /\ (Mounting(h) => proc'[h].mount = proc[h].mount)
    BY <1>1 DEF GoesOn, Mounting
  <2> QED BY <2>1, <2>2
<1>3. \A g \in Procs : \A m \in Reach(g)' :
         \/ m \in Reach(g)
         \/ g = h /\ (m \in current \cup pinned \/ (Mounting(h) /\ m = proc[h].mount))
  BY <1>1, Others DEF GoesOn
<1>4. \A m \in pinned' : m \in pinned \/ (h \in Procs /\ m \in Reach(h) /\ ~Mounting(h))
  BY <1>1 DEF GoesOn
<1>5. \A g \in Procs : Mounting(g) => Private(g)
  BY DEF Structure
<1>k. /\ current \subseteq DOMAIN mounts /\ pinned \subseteq DOMAIN mounts
      /\ closer.waits \subseteq DOMAIN mounts
      /\ \A g \in Procs : Reach(g) \subseteq DOMAIN mounts
  BY DEF Structure, Known
<1>6. Known'
  <2>1. \A g \in Procs : Mounting(g) => proc[g].mount \in DOMAIN mounts
    BY <1>5 DEF Private
  <2>2. pinned' \subseteq DOMAIN mounts
    BY <1>4, <1>k
  <2>3. \A g \in Procs : Reach(g)' \subseteq DOMAIN mounts
    BY <1>3, <1>k, <2>1
  <2> QED BY <1>1, <1>k, <2>2, <2>3 DEF Known
<1>7. \A g \in Procs : Place(g)'
  <2>1. ASSUME NEW g \in Procs \ {h} PROVE Place(g)'
    BY <1>1, Others DEF Structure
  <2> QED BY <1>1, <2>1 DEF GoesOn
<1>8. ASSUME NEW g \in Procs, Mounting(g)' PROVE Private(g)'
  <2> DEFINE m == proc[g].mount
  <2>0. Mounting(g) /\ Private(g) /\ proc'[g].mount = m
    BY <1>2, <1>5, <1>8
  <2>1. /\ m \in DOMAIN mounts /\ m \notin current /\ m \notin pinned
        /\ ~mounts[m].retired /\ mounts[m].closes = 0
        /\ \A k \in Procs \ {g} : m \notin Reach(k) /\ (Mounting(k) => proc[k].mount # m)
    BY <2>0 DEF Private
  <2> HIDE DEF m
  <2>2. m \in DOMAIN mounts' /\ ~mounts'[m].retired /\ mounts'[m].closes = 0
    BY <1>1, <2>1 DEF MountsKept
  <2>3. m \notin current' /\ m \notin pinned'
    BY <1>1, <1>4, <2>0, <2>1
  <2>4. \A k \in Procs \ {g} : m \notin Reach(k)'
    BY <1>3, <2>1
  <2>5. \A k \in Procs \ {g} : Mounting(k)' => proc'[k].mount # m
    BY <1>2, <2>1
  <2> QED BY <2>0, <2>2, <2>3, <2>4, <2>5 DEF Private
<1>9. ASSUME NEW m \in DOMAIN mounts' PROVE Counts(mounts'[m]) /\ Owned(m)'
  <2>1. /\ Counts(mounts'[m]) /\ Owned(m) /\ m \in DOMAIN mounts
        /\ mounts'[m].retired = mounts[m].retired
        /\ ~mounts[m].retired => mounts'[m].closes = mounts[m].closes
    BY <1>1 DEF Structure, MountsKept
  <2>2. CASE mounts[m].retired
    BY <2>1, <2>2 DEF Owned
  <2>3. CASE ~mounts[m].retired /\ mounts[m].closes = 0 /\ m \in current
    BY <1>1, <2>1, <2>3 DEF Owned
  <2>4. CASE /\ ~mounts[m].retired /\ mounts[m].closes = 0
             /\ \E g \in Procs : Mounting(g) /\ proc[g].mount = m
    <3>1. \E g \in Procs : Mounting(g)' /\ proc'[g].mount = m
      BY <1>2, <2>4
    <3> QED BY <2>1, <2>4, <3>1 DEF Owned
  <2>5. CASE ~mounts[m].retired /\ mounts[m].closes = 1 /\ Gone(m)
    <3>1. \A g \in Procs : Mounting(g) => proc[g].mount # m
      BY <1>5, <2>5 DEF Private
    <3>2. m \notin current /\ m \notin pinned /\ \A g \in Procs : m \notin Reach(g)
      BY <2>5 DEF Gone
    <3>3. Gone(m)'
      BY <1>1, <1>3, <1>4, <3>1, <3>2 DEF Gone
    <3> QED BY <2>1, <2>5, <3>3 DEF Owned
  <2> QED BY <2>1, <2>2, <2>3, <2>4, <2>5 DEF Owned
<1> QED BY <1>6, <1>7, <1>8, <1>9

\* A plan stands while its goroutine works on it and the composition stays.
LEMMA PlanKept ==
    ASSUME PluginsKept, current' = current, closed' = closed, current \subseteq DOMAIN mounts,
           NEW g, Planned(g), proc'[g].kind = proc[g].kind, proc'[g].mount = proc[g].mount,
           proc'[g].todo \cup lease'[g]["snap"].mounts = proc[g].todo \cup lease[g]["snap"].mounts,
           proc[g].kind = "mount" => proc[g].mount \in DOMAIN mounts
    PROVE  Planned(g)'
<1> DEFINE m == proc[g].mount
<1>1. Names(current)' = Names(current) /\ Names(current \ {m})' = Names(current \ {m})
  <2>1. {mounts'[n].plugin : n \in current} = Names(current)
    BY NamesKept
  <2>2. {mounts'[n].plugin : n \in current \ {m}} = Names(current \ {m})
    BY NamesKept
  <2> QED BY <2>1, <2>2, Zenon DEF Names
<1>2. proc[g].kind = "mount" => mounts'[m].plugin = mounts[m].plugin
  BY DEF PluginsKept
<1> PICK p : p = mounts[m].plugin
  BY Zenon
<1>3. proc[g].kind = "mount" => Adds(p)'
  BY <1>1 DEF Planned, Adds, Valid, ResourcesOf
<1>4. proc[g].kind = "unmount" => Valid(Names(current \ {m}))'
  BY <1>1, Zenon DEF Planned, Valid, ResourcesOf
<1> QED BY <1>2, <1>3, <1>4, Zenon DEF Planned, Adds

\* A quiet step keeps the plans of the other goroutines.
LEMMA QuietPlans ==
    ASSUME Structure, NEW h, Quiet(h), NEW g \in Procs, Publishing(g)'
    PROVE  Planned(g)'
<1>1. CASE g = h
  BY <1>1 DEF Quiet, GoesOn
<1>2. CASE g # h
  <2>1. Publishing(g) /\ proc'[g] = proc[g] /\ lease'[g] = lease[g]
    BY <1>2, Others DEF Quiet, OthersStay
  <2>2. Planned(g) /\ current' = current /\ closed' = closed /\ PluginsKept
    BY Zenon, <2>1 DEF Structure, Quiet, MountsKept, PluginsKept
  <2>3. current \subseteq DOMAIN mounts
    BY DEF Structure, Known
  <2>4. proc[g].kind = "mount" => proc[g].mount \in DOMAIN mounts
    BY Zenon, <2>1 DEF Structure, Mounting, Publishing, Private
  <2> QED BY <2>1, <2>2, <2>3, <2>4, PlanKept
<1> QED BY <1>1, <1>2

\* A quiet step keeps the invariant.
LEMMA QuietStep ==
    ASSUME Structure, NEW h, Quiet(h)
    PROVE  Preserved
<1>1. /\ OthersStay(h) /\ MountsKept /\ current' = current /\ closed' = closed
      /\ closer' = closer /\ Tally /\ TypeOK'
  BY DEF Quiet
<1>2. current \subseteq DOMAIN mounts /\ closer.waits \subseteq DOMAIN mounts
  BY DEF Structure, Known
<1>3. CompositionValid'
  <2>1. CompositionValid
    BY DEF Structure
  <2>2. Names(current)' = Names(current)
    <3>1. {mounts'[n].plugin : n \in current} = Names(current)
      BY <1>1, <1>2, NamesKept DEF MountsKept, PluginsKept
    <3> QED BY <1>1, <3>1, Zenon DEF Names
  <2>3. Valid(Names(current))'
    BY <2>1, <2>2 DEF CompositionValid, Valid, ResourcesOf
  <2>4. \A m \in current : mounts'[m].plugin = mounts[m].plugin /\ mounts'[m].retired = mounts[m].retired
    BY <1>1, <1>2 DEF MountsKept
  <2> QED BY <1>1, <2>1, <2>3, <2>4 DEF CompositionValid
<1>4. Shutdown'
  <2>1. Shutdown
    BY DEF Structure
  <2>2. closer.pc = "done" => \A m \in closer.waits : mounts'[m].closes > 0
    BY <1>1, <1>2, <2>1 DEF Shutdown, MountsKept
  <2>3. ASSUME closer.pc \in {"mounts", "done"}, NEW g \in Procs, proc'[g].kind \in Counted
        PROVE  proc'[g].pc = "idle"
    <3>1. closed /\ (proc[g].kind \in Counted => proc[g].pc = "idle")
      BY <2>1, <2>3 DEF Shutdown
    <3>2. CASE g = h
      <4>1. proc'[g].pc # "idle" => ~closed \/ (proc[g].kind \in Counted /\ proc[g].pc # "idle")
        BY <2>3, <3>2 DEF Quiet, GoesOn
      <4> QED BY <3>1, <4>1
    <3>3. CASE g # h
      BY <1>1, <2>3, <3>1, <3>3 DEF OthersStay
    <3> QED BY <3>2, <3>3
  <2> QED BY <1>1, <2>1, <2>2, <2>3 DEF Shutdown
<1>5. \A g \in Procs : Publishing(g)' => Planned(g)'
  BY QuietPlans
<1>6. /\ Known' /\ \A g \in Procs : Place(g)'
      /\ \A g \in Procs : Mounting(g)' => Private(g)'
      /\ \A m \in DOMAIN mounts' : Counts(mounts'[m]) /\ Owned(m)'
  BY QuietReach
<1> QED BY <1>1, <1>3, <1>4, <1>5, <1>6, Zenon DEF Structure, Preserved

-----------------------------------------------------------------------------
(***************************************************************************)
(* Acquire and Release.                                                    *)
(***************************************************************************)

\* What a goroutine has is well formed.
LEMMA ProcTypes ==
    ASSUME TypeOK, NEW h \in Procs
    PROVE  /\ proc[h] \in Proc /\ proc[h].pc \in {"idle", "begun", "acquire", "derive", "work",
                                                  "release", "deferred", "opened", "discard"}
           /\ proc[h].kind \in Kinds /\ proc[h].slot \in Slots
           /\ proc[h].todo \subseteq MountIds /\ proc[h].mount \in 0..MaxMounts
           /\ \A s \in Slots : /\ lease[h][s] \in Lease /\ lease[h][s].mounts \subseteq MountIds
                               /\ lease[h][s].released \in BOOLEAN
<1>1. proc[h] \in Proc
  BY DEF TypeOK
<1>2. \A s \in Slots : lease[h][s] \in Lease
  BY DEF TypeOK
<1>3. \A s \in Slots : lease[h][s].mounts \subseteq MountIds /\ lease[h][s].released \in BOOLEAN
  BY <1>2 DEF Lease
<1> QED BY <1>1, <1>2, <1>3 DEF Proc

\* The places in the code.
Pcs == {"idle", "begun", "acquire", "derive", "work", "release", "deferred", "opened",
        "discard"}

\* The record of a goroutine that goes on.
LEMMA ProcWith ==
    ASSUME NEW p \in Proc, NEW pc \in Pcs
    PROVE  /\ [p EXCEPT !.pc = pc] \in Proc
           /\ \A todo \in SUBSET MountIds : [p EXCEPT !.todo = todo] \in Proc
           /\ \A kind \in Kinds : [p EXCEPT !.pc = pc, !.kind = kind] \in Proc
           /\ \A kind \in Kinds, todo \in SUBSET MountIds :
                 [p EXCEPT !.pc = pc, !.kind = kind, !.todo = todo] \in Proc
           /\ \A kind \in Kinds, m \in 0..MaxMounts :
                 [p EXCEPT !.pc = pc, !.kind = kind, !.mount = m] \in Proc
<1>1. [p EXCEPT !.pc = pc] \in Proc
  BY Zenon DEF Proc, Pcs
<1>2. \A todo \in SUBSET MountIds : [p EXCEPT !.todo = todo] \in Proc
  BY Zenon DEF Proc
<1>3. \A kind \in Kinds : [p EXCEPT !.pc = pc, !.kind = kind] \in Proc
  BY Zenon DEF Proc, Pcs
<1>4. \A kind \in Kinds, todo \in SUBSET MountIds :
         [p EXCEPT !.pc = pc, !.kind = kind, !.todo = todo] \in Proc
  BY Zenon DEF Proc, Pcs
<1>5. \A kind \in Kinds, m \in 0..MaxMounts :
         [p EXCEPT !.pc = pc, !.kind = kind, !.mount = m] \in Proc
  BY Zenon DEF Proc, Pcs
<1> QED BY <1>1, <1>2, <1>3, <1>4, <1>5, Zenon

\* A goroutine's record and leases are replaced.
LEMMA Moved ==
    ASSUME TypeOK, NEW h \in Procs, NEW p \in Proc, NEW l \in [Slots -> Lease],
           proc' = [proc EXCEPT ![h] = p], lease' = [lease EXCEPT ![h] = l]
    PROVE  /\ proc' \in [Procs -> Proc] /\ lease' \in [Procs -> [Slots -> Lease]]
           /\ proc'[h] = p /\ lease'[h] = l
           /\ \A g \in Procs \ {h} : proc'[g] = proc[g] /\ lease'[g] = lease[g]
<1>1. proc \in [Procs -> Proc] /\ lease \in [Procs -> [Slots -> Lease]]
  BY DEF TypeOK
<1>2. proc' \in [Procs -> Proc] /\ proc'[h] = p /\ \A g \in Procs \ {h} : proc'[g] = proc[g]
  BY <1>1
<1>3. /\ lease' \in [Procs -> [Slots -> Lease]] /\ lease'[h] = l
      /\ \A g \in Procs \ {h} : lease'[g] = lease[g]
  BY <1>1
<1> QED BY <1>2, <1>3

\* The others hold what they held.
LEMMA OthersHold ==
    ASSUME NEW h, \A g \in Procs \ {h} : proc'[g] = proc[g] /\ lease'[g] = lease[g]
    PROVE  \A g \in Procs \ {h}, s \in Slots : Held(g, s)' = Held(g, s)
BY DEF Held

\* The goroutines and their leases keep their types.
Typed == proc' \in [Procs -> Proc] /\ lease' \in [Procs -> [Slots -> Lease]]

\* Only goroutine h moves.
OthersMoveNot(h) == \A g \in Procs \ {h} : proc'[g] = proc[g] /\ lease'[g] = lease[g]

\* No reference changes hands.
HeldStays == \A g \in Procs, s \in Slots : Held(g, s)' = Held(g, s)

\* The goroutine has taken the mutex to acquire S into a slot.
Entered(h, kind, slot, S, m) ==
    /\ Typed /\ OthersMoveNot(h) /\ HeldStays /\ mu = Free /\ mu' = h
    /\ proc'[h].pc = "acquire" /\ proc'[h].kind = kind /\ proc'[h].slot = slot
    /\ proc'[h].todo = S /\ proc'[h].mount = m
    /\ lease'[h][slot].mounts = {} /\ ~lease'[h][slot].released
    /\ \A s \in Slots \ {slot} : lease'[h][s] = lease[h][s]

\* The goroutine gives the lease in a slot back, mount by mount.
Returning(h, slot) ==
    /\ Typed /\ OthersMoveNot(h) /\ HeldStays
    /\ proc'[h].pc = "release" /\ proc'[h].kind = proc[h].kind /\ proc'[h].slot = slot
    /\ proc'[h].todo = Releasing(lease[h][slot]) /\ proc'[h].mount = proc[h].mount
    /\ proc'[h].todo \subseteq lease[h][slot].mounts
    /\ lease'[h][slot].mounts = lease[h][slot].mounts /\ lease'[h][slot].released
    /\ \A s \in Slots \ {slot} : lease'[h][s] = lease[h][s]

\* A call of acquireMountsLocked begins with nothing.
LEMMA Acquires ==
    ASSUME TypeOK, NEW h \in Procs, NEW kind \in Kinds, NEW slot \in Slots,
           NEW S \in SUBSET MountIds, NEW m \in 0..MaxMounts, Acquire(h, kind, slot, S, m),
           proc[h].pc # "release", lease[h][slot] = NoLease
    PROVE  Entered(h, kind, slot, S, m)
<1> DEFINE p == [pc |-> "acquire", kind |-> kind, slot |-> slot, todo |-> S, mount |-> m]
           e == [mounts |-> {}, released |-> FALSE]
           l == [lease[h] EXCEPT ![slot] = e]
<1>1. mu = Free /\ mu' = h /\ proc' = [proc EXCEPT ![h] = p]
  BY DEF Acquire
<1>2. lease' = [lease EXCEPT ![h] = l]
  BY DEF Acquire
<1>3. p \in Proc
  BY DEF Proc
<1>4. e \in Lease
  BY DEF Lease
<1> HIDE DEF e
<1>5. lease[h] \in [Slots -> Lease]
  BY DEF TypeOK
<1>6. l \in [Slots -> Lease] /\ l[slot] = e /\ \A s \in Slots \ {slot} : l[s] = lease[h][s]
  BY <1>4, <1>5
<1>7. /\ p.pc = "acquire" /\ p.kind = kind /\ p.slot = slot /\ p.todo = S /\ p.mount = m
  OBVIOUS
<1>8. e.mounts = {} /\ e.released = FALSE
  BY DEF e
<1> HIDE DEF p, l
<1>9. /\ proc' \in [Procs -> Proc] /\ lease' \in [Procs -> [Slots -> Lease]]
      /\ proc'[h] = p /\ lease'[h] = l
      /\ \A g \in Procs \ {h} : proc'[g] = proc[g] /\ lease'[g] = lease[g]
  BY <1>1, <1>2, <1>3, <1>6, Moved, Zenon
<1>11. \A s \in Slots : Held(h, s)' = Held(h, s)
  <2>1. Held(h, slot)' = {} /\ Held(h, slot) = {}
    BY <1>6, <1>7, <1>8, <1>9 DEF Held, NoLease
  <2>2. \A s \in Slots \ {slot} : Held(h, s)' = Held(h, s)
    BY <1>6, <1>7, <1>9 DEF Held
  <2> QED BY <2>1, <2>2
<1>12. \A g \in Procs \ {h}, s \in Slots : Held(g, s)' = Held(g, s)
  BY <1>9, OthersHold, Zenon
<1> QED BY <1>1, <1>6, <1>7, <1>8, <1>9, <1>11, <1>12
           DEF Entered, Typed, OthersMoveNot, HeldStays

\* A call of release begins with what the lease has.
LEMMA ReleaseBegins ==
    ASSUME TypeOK, NEW h \in Procs, NEW slot \in Slots, Release(h, slot),
           \/ proc[h].pc # "release"
           \/ /\ proc[h].slot # slot /\ proc[h].todo = {}
              /\ lease[h][proc[h].slot].released
    PROVE  Returning(h, slot)
<1> DEFINE p == [proc[h] EXCEPT !.pc = "release", !.slot = slot,
                                !.todo = Releasing(lease[h][slot])]
           e == [lease[h][slot] EXCEPT !.released = TRUE]
           l == [lease[h] EXCEPT ![slot] = e]
<1>t. /\ proc[h] \in Proc /\ lease[h] \in [Slots -> Lease] /\ lease[h][slot] \in Lease
      /\ lease[h][slot].released \in BOOLEAN /\ proc[h].slot \in Slots
  BY ProcTypes DEF TypeOK
<1>r. /\ Releasing(lease[h][slot]) \in SUBSET MountIds
      /\ Releasing(lease[h][slot]) \subseteq lease[h][slot].mounts
  BY ProcTypes DEF Releasing
<1>1. proc' = [proc EXCEPT ![h] = p]
  BY Zenon DEF Release
<1>2. lease' = [lease EXCEPT ![h] = l]
  BY DEF Release
<1>3. /\ p \in Proc /\ p.pc = "release" /\ p.kind = proc[h].kind /\ p.slot = slot
      /\ p.todo = Releasing(lease[h][slot]) /\ p.mount = proc[h].mount
  BY <1>t, <1>r, Zenon DEF Proc
<1>4. e \in Lease /\ e.mounts = lease[h][slot].mounts /\ e.released = TRUE
  BY <1>t, Zenon DEF Lease
<1> HIDE DEF e
<1>5. l \in [Slots -> Lease] /\ l[slot] = e /\ \A s \in Slots \ {slot} : l[s] = lease[h][s]
  BY <1>4, <1>t
<1> HIDE DEF p, l
<1>6. /\ proc' \in [Procs -> Proc] /\ lease' \in [Procs -> [Slots -> Lease]]
      /\ proc'[h] = p /\ lease'[h] = l
      /\ \A g \in Procs \ {h} : proc'[g] = proc[g] /\ lease'[g] = lease[g]
  BY <1>1, <1>2, <1>3, <1>5, Moved, Zenon
<1>7. \A s \in Slots : Held(h, s)' = Held(h, s)
  <2>1. Held(h, slot)' = Releasing(lease[h][slot])
    BY <1>3, <1>6 DEF Held
  <2>2. Held(h, slot) = Releasing(lease[h][slot])
    BY DEF Held, Releasing
  <2>3. ASSUME NEW s \in Slots \ {slot} PROVE Held(h, s)' = Held(h, s)
    <3>1. Held(h, s)' = IF lease[h][s].released THEN {} ELSE lease[h][s].mounts
      BY <1>3, <1>5, <1>6, <2>3 DEF Held
    <3>2. CASE proc[h].pc # "release" \/ proc[h].slot # s
      BY <3>1, <3>2 DEF Held
    <3>3. CASE proc[h].pc = "release" /\ proc[h].slot = s
      BY <3>1, <3>3 DEF Held
    <3> QED BY <3>2, <3>3
  <2> QED BY <2>1, <2>2, <2>3
<1>8. \A g \in Procs \ {h}, s \in Slots : Held(g, s)' = Held(g, s)
  BY <1>6, OthersHold, Zenon
<1> QED BY ZenonT(60), <1>3, <1>4, <1>5, <1>6, <1>7, <1>8, <1>r
           DEF Returning, Typed, OthersMoveNot, HeldStays

\* A goroutine moves on with the leases it has.
LEMMA MovesOn ==
    ASSUME TypeOK, NEW h \in Procs, NEW p \in Proc, proc' = [proc EXCEPT ![h] = p],
           lease' = lease, p.pc # "release",
           proc[h].pc = "release" => proc[h].todo = {} /\ lease[h][proc[h].slot].released
    PROVE  /\ Typed /\ OthersMoveNot(h) /\ HeldStays
           /\ proc'[h] = p /\ lease'[h] = lease[h]
<1>1. proc \in [Procs -> Proc] /\ lease \in [Procs -> [Slots -> Lease]]
  BY Zenon DEF TypeOK
<1>2. proc' \in [Procs -> Proc] /\ proc'[h] = p /\ \A g \in Procs \ {h} : proc'[g] = proc[g]
  BY <1>1
<1>3. \A s \in Slots : Held(h, s)' = Held(h, s)
  BY Zenon, <1>2 DEF Held
<1>4. \A g \in Procs \ {h}, s \in Slots : Held(g, s)' = Held(g, s)
  BY <1>2, OthersHold
<1> QED BY <1>1, <1>2, <1>3, <1>4 DEF Typed, OthersMoveNot, HeldStays

\* A step of a goroutine that changes no mount is quiet.
LEMMA CallStep ==
    ASSUME Structure, NEW h \in Procs, UNCHANGED <<mounts, current, closed, closer>>,
           Typed, OthersMoveNot(h), HeldStays, GoesOn(h),
           mu' = mu \/ (mu = h /\ mu' = Free) \/ (mu = Free /\ mu' = h)
    PROVE  Preserved
<1>1. TypeOK /\ Known /\ \A m \in DOMAIN mounts : Counts(mounts[m])
  BY DEF Structure
<1>2. MountsKept
  BY <1>1 DEF MountsKept
<1>3. OthersStay(h)
  BY CompositionAssumption DEF OthersStay, OthersMoveNot
<1>4. Tally
  BY <1>1, HeldSame DEF HeldStays
<1>5. pinned' \subseteq DOMAIN mounts
  BY <1>1 DEF GoesOn, Known
<1>6. mu' \in Procs \cup {Free}
  BY <1>1 DEF TypeOK
<1>7. TypeOK'
  BY <1>1, <1>5, <1>6 DEF TypeOK, Typed
<1>8. Quiet(h)
  BY <1>2, <1>3, <1>4, <1>7 DEF Quiet
<1> QED BY <1>8, QuietStep

-----------------------------------------------------------------------------
(***************************************************************************)
(* Callers.                                                                *)
(***************************************************************************)

\* A caller that is neither mounting nor unmounting goes on.
LEMMA CallerGoesOn ==
    ASSUME NEW h, Place(h)', proc[h].kind \notin {"mount", "unmount"},
           proc'[h].kind \notin {"mount", "unmount"},
           Reach(h)' \subseteq Reach(h) \cup current \cup pinned,
           pinned' \subseteq pinned \cup Reach(h),
           proc'[h].kind \in Counted /\ proc'[h].pc # "idle" =>
              ~closed \/ (proc[h].kind \in Counted /\ proc[h].pc # "idle")
    PROVE  GoesOn(h)
<1>1. ~Mounting(h)' /\ ~Mounting(h) /\ ~Publishing(h)'
  BY DEF Mounting, Publishing
<1> QED BY <1>1, Zenon DEF GoesOn

\* beginTrajectoryWork.
LEMMA BeginStep ==
    ASSUME Structure, NEW h \in Procs, NEW kind \in Kinds, Begin(h, kind)
    PROVE  Preserved
<1> DEFINE p == [proc[h] EXCEPT !.pc = "begun", !.kind = kind]
<1>1. TypeOK /\ Place(h) /\ proc[h] = Idle /\ proc[h] \in Proc
  BY ProcTypes DEF Structure, Begin
<1>2. /\ proc[h].slot = "snap" /\ proc[h].todo = {} /\ proc[h].pc = "idle"
      /\ proc[h].kind = "turn"
  BY <1>1 DEF Idle
<1>3. "begun" \in Pcs
  BY DEF Pcs
<1>4. p \in Proc
  BY <1>1, <1>3, ProcWith, Zenon
<1>5. p.pc = "begun" /\ p.kind = kind /\ p.slot = "snap" /\ p.todo = {}
  BY <1>1, <1>2 DEF Proc
<1>6. /\ kind \in {"turn", "resume", "invoke"} /\ (kind \in Counted => ~closed)
      /\ proc' = [proc EXCEPT ![h] = p] /\ lease' = lease /\ mu' = mu /\ pinned' = pinned
      /\ UNCHANGED <<mounts, current, closed, closer>>
  BY Zenon DEF Begin
<1> HIDE DEF p
<1>7. p.pc # "release" /\ proc[h].pc # "release"
  BY <1>2, <1>5
<1>8. Typed /\ OthersMoveNot(h) /\ HeldStays /\ proc'[h] = p /\ lease'[h] = lease[h]
  BY <1>1, <1>4, <1>6, <1>7, MovesOn, Zenon
<1>9. lease[h]["snap"] = NoLease /\ lease[h]["own"] = NoLease /\ mu # h
  BY <1>1, <1>2 DEF Place
<1>10. Place(h)'
  BY Zenon, <1>5, <1>6, <1>8, <1>9 DEF Place
<1>11. Reach(h)' = {}
  BY <1>5, <1>8, <1>9 DEF Reach, NoLease
<1>12. GoesOn(h)
  BY Zenon, <1>2, <1>5, <1>6, <1>8, <1>10, <1>11, CallerGoesOn
<1> QED BY <1>6, <1>8, <1>12, CallStep, Zenon

\* A lease that is not held.
LEMMA LeaseRecord == NoLease.mounts = {} /\ NoLease.released
BY DEF NoLease

\* The record of a goroutine that returned.
LEMMA IdleRecord ==
    /\ Idle \in Proc /\ Idle.pc = "idle" /\ Idle.kind = "turn" /\ Idle.slot = "snap"
    /\ Idle.todo = {}
<1>1. 0 \in 0..MaxMounts /\ {} \in SUBSET MountIds
  BY CompositionAssumption
<1>2. Idle \in Proc
  BY <1>1, Zenon DEF Idle, Proc, Kinds, Slots
<1> QED BY <1>2 DEF Idle

\* acquireSnapshot.
LEMMA SnapshotStep ==
    ASSUME Structure, NEW h \in Procs, AcquireSnapshot(h)
    PROVE  Preserved
<1>1. TypeOK /\ Known /\ Place(h) /\ proc[h].pc = "begun"
  BY DEF Structure, AcquireSnapshot
<1>2. /\ lease[h]["snap"] = NoLease /\ lease[h]["own"] = NoLease /\ mu # h
      /\ proc[h].kind \notin {"mount", "unmount"} /\ proc[h].pc # "release"
  BY <1>1 DEF Place
<1>3. current' = current /\ pinned' = pinned /\ UNCHANGED <<mounts, current, closed, closer>>
  BY Zenon DEF AcquireSnapshot
<1>4. CASE proc' = [proc EXCEPT ![h] = Idle] /\ UNCHANGED <<mu, lease>>
  <2>1. mu' = mu /\ lease' = lease
    BY <1>4
  <2>2. Typed /\ OthersMoveNot(h) /\ HeldStays /\ proc'[h] = Idle /\ lease'[h] = lease[h]
    <3>1. Idle.pc # "release"
      BY IdleRecord
    <3> QED BY <1>1, <1>2, <1>4, <2>1, <3>1, IdleRecord, MovesOn, Zenon
  <2>3. Place(h)'
    BY Zenon, <1>2, <2>1, <2>2, IdleRecord DEF Place
  <2>4. Reach(h)' = {}
    BY SMT, SMTT(30), <1>2, <2>2, IdleRecord DEF Reach, NoLease
  <2>5. GoesOn(h)
    BY <1>2, <1>3, <2>2, <2>3, <2>4, IdleRecord, CallerGoesOn
  <2> QED BY <1>3, <2>1, <2>2, <2>5, CallStep, Zenon
<1>5. ASSUME NEW S \in {current, pinned}, Acquire(h, proc[h].kind, "snap", S, 0), ~closed
      PROVE  Preserved
  <2>1. S \in SUBSET MountIds /\ 0 \in 0..MaxMounts /\ "snap" \in Slots /\ "own" \in Slots \ {"snap"}
    BY SMT, SMTT(30), <1>1, <1>5, Domains, CompositionAssumption DEF Known, Slots
  <2>2. proc[h].kind \in Kinds
    BY <1>1, ProcTypes
  <2>3. Entered(h, proc[h].kind, "snap", S, 0)
    BY <1>1, <1>2, <1>5, <2>1, <2>2, Acquires, Zenon
  <2>4. lease'[h]["own"] = NoLease
    BY <1>2, <2>1, <2>3, Zenon DEF Entered
  <2>5. /\ proc'[h].pc = "acquire" /\ proc'[h].kind \notin {"mount", "unmount"}
        /\ proc'[h].slot = "snap" /\ lease'[h]["snap"].mounts = {} /\ mu' = h
        /\ ~lease'[h]["snap"].released /\ mu = Free
        /\ Typed /\ OthersMoveNot(h) /\ HeldStays /\ proc'[h].todo = S
    BY <1>2, <2>3 DEF Entered
  <2>6. Place(h)'
    BY Zenon, <2>4, <2>5 DEF Place
  <2>7. Reach(h)' = S
    <3>1. lease'[h]["own"].mounts = {} /\ proc'[h].todo = S
      BY <2>4, <2>5 DEF NoLease
    <3> QED BY <2>5, <3>1 DEF Reach
  <2>8. GoesOn(h)
    <3>1. Reach(h)' \subseteq Reach(h) \cup current \cup pinned
      BY <1>5, <2>7
    <3> QED BY Zenon, <1>2, <1>3, <1>5, <2>5, <2>6, <3>1, CallerGoesOn
  <2> QED BY <1>3, <2>5, <2>8, CallStep, Zenon
<1> QED BY <1>4, <1>5, Zenon DEF AcquireSnapshot

\* A call of release begins.
LEMMA ReleaseStep ==
    ASSUME Structure, NEW h \in Procs, NEW slot \in Slots, Returning(h, slot),
           UNCHANGED <<mounts, current, closed, closer>>,
           mu' = mu \/ (mu = h /\ mu' = Free),
           \/ pinned' = pinned
           \/ pinned' \subseteq Reach(h) /\ proc[h].kind \notin {"mount", "unmount"},
           proc[h].pc # "idle", slot = "own" /\ mu' # h => lease[h]["snap"].released,
           proc[h].kind \in {"mount", "unmount"} => slot = "snap",
           proc[h].kind = "mount" => Mounting(h) /\ mu' = h
    PROVE  Preserved
<1>1. /\ Typed /\ OthersMoveNot(h) /\ HeldStays /\ proc'[h].pc = "release"
      /\ proc'[h].kind = proc[h].kind /\ proc'[h].slot = slot /\ proc'[h].mount = proc[h].mount
      /\ lease'[h][slot].released /\ lease'[h][slot].mounts = lease[h][slot].mounts
      /\ proc'[h].todo \subseteq lease[h][slot].mounts
      /\ \A s \in Slots \ {slot} : lease'[h][s] = lease[h][s]
  BY Zenon DEF Returning
<1>2. /\ slot = "own" => lease'[h]["snap"] = lease[h]["snap"]
      /\ slot = "snap" => lease'[h]["own"] = lease[h]["own"]
      /\ slot = "snap" \/ slot = "own"
  BY Zenon, <1>1 DEF Slots
<1>3. Place(h) /\ (proc[h].kind \in {"mount", "unmount"} => lease[h]["own"] = NoLease)
  BY Zenon DEF Structure, Place
<1>4. Place(h)'
  BY <1>1, <1>2, <1>3, Zenon DEF Place
<1>5. Reach(h)' \subseteq Reach(h)
  <2>1. /\ lease'[h]["snap"].mounts = lease[h]["snap"].mounts
        /\ lease'[h]["own"].mounts = lease[h]["own"].mounts
    BY <1>1, <1>2, Zenon
  <2>2. proc'[h].todo \subseteq lease[h]["snap"].mounts \cup lease[h]["own"].mounts
    BY Zenon, <1>1, <1>2
  <2> QED BY <2>1, <2>2, Zenon DEF Reach
<1>6. (Mounting(h)' <=> Mounting(h)) /\ ~Publishing(h)'
  BY Zenon, <1>1 DEF Mounting, Publishing
<1>7. Mounting(h) => proc[h].kind \in {"mount", "unmount"}
  BY DEF Mounting
<1>8. GoesOn(h)
  BY <1>1, <1>4, <1>5, <1>6, <1>7, Zenon DEF GoesOn
<1> QED BY <1>1, <1>8, CallStep, Zenon

\* The owner of a resource is leased from the snapshot.
LEMMA PartStep ==
    ASSUME Structure, NEW h \in Procs, AcquirePart(h)
    PROVE  Preserved
<1>1. TypeOK /\ Known /\ Place(h) /\ proc[h].pc = "derive"
  BY Zenon DEF Structure, AcquirePart
<1>2. /\ lease[h]["own"] = NoLease /\ mu # h /\ proc[h].pc # "release" /\ proc[h].pc # "idle"
      /\ proc[h].kind \notin {"mount", "unmount"} /\ "snap" \in Slots /\ "own" \in Slots
      /\ "snap" # "own"
  BY <1>1 DEF Place, Slots
<1>3. pinned' = pinned /\ UNCHANGED <<mounts, current, closed, closer>>
  BY Zenon DEF AcquirePart
<1>4. CASE Release(h, "snap") /\ UNCHANGED mu
  <2>1. Returning(h, "snap") /\ mu' = mu
    BY <1>1, <1>2, <1>4, ReleaseBegins, Zenon
  <2> QED BY Zenon, <1>2, <1>3, <2>1, ReleaseStep
<1>5. ASSUME NEW S \in SUBSET lease[h]["snap"].mounts, ~closed,
             Acquire(h, proc[h].kind, "own", S, 0)
      PROVE  Preserved
  <2>1. S \in SUBSET MountIds /\ 0 \in 0..MaxMounts /\ proc[h].kind \in Kinds
    <3>1. lease[h]["snap"].mounts \subseteq MountIds /\ proc[h].kind \in Kinds
      BY <1>1, <1>2, ProcTypes
    <3> QED BY <1>5, <3>1, CompositionAssumption
  <2>2. Entered(h, proc[h].kind, "own", S, 0)
    BY <1>1, <1>2, <1>5, <2>1, Acquires, Zenon
  <2>3. /\ Typed /\ OthersMoveNot(h) /\ HeldStays /\ mu = Free /\ mu' = h
        /\ proc'[h].pc = "acquire" /\ proc'[h].kind = proc[h].kind /\ proc'[h].slot = "own"
        /\ proc'[h].todo = S /\ lease'[h]["own"].mounts = {} /\ ~lease'[h]["own"].released
    BY <2>2, Zenon DEF Entered
  <2>4. lease'[h]["snap"] = lease[h]["snap"]
    BY Zenon, <1>2, <2>2 DEF Entered
  <2>5. Place(h)'
    BY <1>2, <2>3, Zenon DEF Place
  <2>6. Reach(h)' \subseteq Reach(h) \cup current \cup pinned
    <3>1. S \subseteq lease[h]["snap"].mounts
      BY Zenon, <1>5
    <3> QED BY Zenon, <2>3, <2>4, <3>1 DEF Reach
  <2>7. GoesOn(h)
    BY Zenon, <1>2, <1>3, <1>5, <2>3, <2>5, <2>6, CallerGoesOn
  <2> QED BY <1>3, <2>3, <2>7, CallStep, Zenon
<1> QED BY <1>4, <1>5, Zenon DEF AcquirePart

\* A caller has its lease.
LEMMA AcquiredStep ==
    ASSUME Structure, NEW h \in Procs, Acquired(h)
    PROVE  Preserved
<1>1. TypeOK /\ Place(h) /\ proc[h].pc = "acquire" /\ proc[h].todo = {}
  BY DEF Structure, Acquired
<1>2. /\ mu = h /\ proc[h].kind \notin {"mount", "unmount"} /\ mu' = Free
      /\ pinned' = pinned /\ UNCHANGED <<mounts, current, closed, closer>>
      /\ proc[h].pc # "release" /\ proc[h].pc # "idle" /\ mu' # h
      /\ "snap" \in Slots /\ "snap" # "own"
      /\ proc[h].slot = "own" \/ proc[h].slot = "snap"
  BY Zenon, <1>1, ProcTypes, CompositionAssumption DEF Place, Acquired, Slots
<1>3. CASE Release(h, "snap")
  <2>1. Returning(h, "snap")
    BY <1>1, <1>2, <1>3, ReleaseBegins, Zenon
  <2> QED BY Zenon, <1>2, <2>1, ReleaseStep
<1>4. ASSUME NEW pc \in {"work", "derive"}, proc' = [proc EXCEPT ![h].pc = pc], lease' = lease,
             proc[h].slot = "snap", proc[h].kind = "turn" <=> pc = "work"
      PROVE  Preserved
  <2> DEFINE p == [proc[h] EXCEPT !.pc = pc]
  <2>1. pc \in Pcs /\ pc # "release" /\ proc[h] \in Proc /\ pc \notin {"acquire", "idle"}
    BY <1>1, ProcTypes DEF Pcs
  <2>2. /\ p \in Proc /\ p.pc = pc /\ p.kind = proc[h].kind /\ p.slot = proc[h].slot
        /\ p.todo = proc[h].todo /\ proc' = [proc EXCEPT ![h] = p]
    BY <1>4, <2>1, ProcWith, Zenon DEF Proc
  <2> HIDE DEF p
  <2>3. Typed /\ OthersMoveNot(h) /\ HeldStays /\ proc'[h] = p /\ lease'[h] = lease[h]
    BY <1>1, <1>2, <1>4, <2>1, <2>2, MovesOn, Zenon
  <2>4. lease[h]["own"] = NoLease
    BY <1>1, <1>4 DEF Place
  <2>5. Place(h)'
    BY Zenon, <1>2, <1>4, <2>1, <2>2, <2>3, <2>4 DEF Place
  <2>6. Reach(h)' = Reach(h)
    BY Zenon, <2>2, <2>3 DEF Reach
  <2>7. GoesOn(h)
    BY Zenon, <1>2, <2>2, <2>3, <2>5, <2>6, CallerGoesOn
  <2> QED BY <1>2, <2>3, <2>7, CallStep, Zenon
<1>5. CASE proc[h].slot = "snap"
  <2>1. /\ proc' = [proc EXCEPT ![h].pc = IF proc[h].kind = "turn" THEN "work" ELSE "derive"]
        /\ lease' = lease
    BY <1>2, <1>5 DEF Acquired
  <2> QED BY <1>4, <1>5, <2>1, Zenon
<1> QED BY <1>2, <1>3, <1>5 DEF Acquired

\* The call is over.
LEMMA WorkStep ==
    ASSUME Structure, NEW h \in Procs, WorkDone(h)
    PROVE  Preserved
<1> DEFINE slot == IF proc[h].kind = "turn" THEN "snap" ELSE "own"
<1>1. TypeOK /\ Place(h) /\ proc[h].pc = "work"
  BY Zenon DEF Structure, WorkDone
<1>2. /\ slot \in Slots /\ mu # h /\ proc[h].pc # "release" /\ proc[h].pc # "idle"
      /\ proc[h].kind \notin {"mount", "unmount"}
      /\ slot = "own" => lease[h]["snap"].released
  BY <1>1 DEF Place, Slots
<1>3. /\ Release(h, slot) /\ mu' = mu /\ UNCHANGED <<mounts, current, closed, closer>>
      /\ pinned' = pinned \/ pinned' = lease[h]["own"].mounts
  BY DEF WorkDone
<1> HIDE DEF slot
<1>4. Returning(h, slot)
  BY <1>1, <1>2, <1>3, ReleaseBegins, Zenon
<1>5. pinned' = pinned \/ pinned' \subseteq Reach(h)
  BY Zenon, <1>3 DEF Reach
<1> QED BY <1>2, <1>3, <1>4, <1>5, ReleaseStep, Zenon

\* The deferred release of ResumeSession has nothing left to give back.
LEMMA DeferredStep ==
    ASSUME Structure, NEW h \in Procs, DeferredRelease(h)
    PROVE  Preserved
<1> DEFINE p == [proc[h] EXCEPT !.pc = "release", !.kind = "resumed", !.todo = {}]
           e == [lease[h]["own"] EXCEPT !.released = TRUE]
           l == [lease[h] EXCEPT !["own"] = e]
<1>1. TypeOK /\ Place(h) /\ proc[h].pc = "deferred"
  BY Zenon DEF Structure, DeferredRelease
<1>2. /\ lease[h]["snap"].released /\ lease[h]["own"].released /\ proc[h].slot = "own"
      /\ proc[h].kind = "resume" /\ mu # h /\ "own" \in Slots /\ "snap" \in Slots \ {"own"}
  BY Zenon, <1>1 DEF Place, Slots
<1>3. proc[h] \in Proc /\ lease[h]["own"] \in Lease /\ lease[h] \in [Slots -> Lease]
  BY Zenon, <1>1, <1>2, ProcTypes DEF TypeOK
<1>4. Releasing(lease[h]["own"]) = {}
  BY <1>2 DEF Releasing
<1>5. /\ proc' = [proc EXCEPT ![h] = p] /\ lease' = [lease EXCEPT ![h] = l] /\ mu' = mu
      /\ pinned' = pinned /\ UNCHANGED <<mounts, current, closed, closer>>
  BY <1>4, Zenon DEF DeferredRelease
<1>6. "release" \in Pcs /\ "resumed" \in Kinds /\ {} \in SUBSET MountIds
  BY DEF Pcs, Kinds
<1>7. p \in Proc
  BY <1>3, <1>6, ProcWith, Zenon
<1>8. /\ p.pc = "release" /\ p.kind = "resumed" /\ p.slot = "own" /\ p.todo = {}
  BY <1>2, <1>3 DEF Proc
<1>9. e \in Lease /\ e.mounts = lease[h]["own"].mounts /\ e.released
  BY <1>3, Zenon DEF Lease
<1> HIDE DEF e
<1>10. l \in [Slots -> Lease] /\ l["own"] = e /\ l["snap"] = lease[h]["snap"]
  BY <1>2, <1>3, <1>9
<1> HIDE DEF p, l
<1>11. /\ Typed /\ OthersMoveNot(h) /\ proc'[h] = p /\ lease'[h] = l
  BY <1>1, <1>5, <1>7, <1>10, Moved, Zenon DEF Typed, OthersMoveNot
<1>12. HeldStays
  <2>1. \A s \in Slots : Held(h, s) = {} /\ Held(h, s)' = {}
    <3>1. Held(h, "own") = {} /\ Held(h, "snap") = {}
      BY Zenon, <1>1, <1>2 DEF Held
    <3>2. Held(h, "own")' = {}
      BY <1>8, <1>11 DEF Held
    <3>3. Held(h, "snap")' = {}
      BY <1>2, <1>8, <1>10, <1>11 DEF Held
    <3> QED BY <3>1, <3>2, <3>3 DEF Slots
  <2>2. \A g \in Procs \ {h}, s \in Slots : Held(g, s)' = Held(g, s)
    BY Zenon, <1>11, OthersHold DEF OthersMoveNot
  <2> QED BY <2>1, <2>2 DEF HeldStays
<1>13. Place(h)'
  BY Zenon, <1>2, <1>5, <1>8, <1>9, <1>10, <1>11 DEF Place
<1>14. Reach(h)' \subseteq Reach(h)
  BY Zenon, <1>8, <1>9, <1>10, <1>11 DEF Reach
<1>15. GoesOn(h)
  <2>1. proc[h].kind \in Counted /\ proc[h].pc # "idle"
    BY <1>1, <1>2 DEF Counted
  <2> QED BY Zenon, <1>2, <1>5, <1>8, <1>11, <1>13, <1>14, <2>1, CallerGoesOn
<1> QED BY <1>5, <1>11, <1>12, <1>15, CallStep, Zenon

\* The loop of release is over.
LEMMA ReleaseDoneStep ==
    ASSUME Structure, NEW h \in Procs, ReleaseDone(h)
    PROVE  Preserved
<1>1. TypeOK /\ Place(h) /\ proc[h].pc = "release" /\ proc[h].todo = {}
  BY Zenon DEF Structure, ReleaseDone
<1>2. /\ lease[h][proc[h].slot].released
      /\ proc[h].slot = "own" /\ mu # h => lease[h]["snap"].released
      /\ proc[h].kind \in {"mount", "unmount"} => proc[h].slot = "snap" /\ lease[h]["own"] = NoLease
  BY Zenon, <1>1 DEF Place
<1>3. /\ proc[h] \in Proc /\ proc[h].slot \in Slots /\ lease[h] \in [Slots -> Lease]
      /\ "own" \in Slots /\ "snap" \in Slots /\ Slots = {"own", "snap"} /\ "snap" # "own"
  BY <1>1, ProcTypes DEF TypeOK, Slots
<1>4. /\ mu' = IF mu = h THEN Free ELSE mu
      /\ pinned' = pinned /\ UNCHANGED <<mounts, current, closed, closer>>
  BY DEF ReleaseDone
<1>5. /\ mu' = mu \/ (mu = h /\ mu' = Free)
      /\ mu' # h
  BY <1>4, CompositionAssumption
<1>6. CASE proc[h].slot = "own" /\ mu = h /\ Release(h, "snap")
  <2>1. Returning(h, "snap")
    BY <1>1, <1>2, <1>3, <1>6, ReleaseBegins, Zenon
  <2>2. proc[h].kind \notin {"mount", "unmount"} /\ proc[h].pc # "idle"
    BY <1>1, <1>2, <1>6
  <2> QED BY Zenon, <1>3, <1>4, <1>5, <2>1, <2>2, ReleaseStep
<1>7. CASE /\ proc[h].slot = "own" /\ mu # h /\ proc[h].kind = "resume"
           /\ proc' = [proc EXCEPT ![h].pc = "deferred"] /\ lease' = lease
  <2> DEFINE p == [proc[h] EXCEPT !.pc = "deferred"]
  <2>1. "deferred" \in Pcs /\ "deferred" # "release"
    BY DEF Pcs
  <2>2. /\ p \in Proc /\ p.pc = "deferred" /\ p.kind = proc[h].kind /\ p.slot = proc[h].slot
        /\ p.todo = proc[h].todo /\ proc' = [proc EXCEPT ![h] = p]
    <3>1. p \in Proc
      BY <1>3, <2>1, ProcWith, Zenon
    <3>2. /\ p.pc = "deferred" /\ p.kind = proc[h].kind /\ p.slot = proc[h].slot
          /\ p.todo = proc[h].todo
      BY <1>3, Zenon DEF Proc
    <3>3. proc' = [proc EXCEPT ![h] = p]
      BY <1>7, Zenon
    <3> QED BY <3>1, <3>2, <3>3, Zenon
  <2> HIDE DEF p
  <2>3. Typed /\ OthersMoveNot(h) /\ HeldStays /\ proc'[h] = p /\ lease'[h] = lease[h]
    BY <1>1, <1>2, <1>7, <2>1, <2>2, MovesOn, Zenon
  <2>4. Place(h)'
    BY <1>2, <1>5, <1>7, <2>2, <2>3 DEF Place
  <2>5. Reach(h)' = Reach(h)
    BY Zenon, <2>2, <2>3 DEF Reach
  <2>6. GoesOn(h)
    BY <1>1, <1>4, <1>7, <2>2, <2>3, <2>4, <2>5, CallerGoesOn
  <2> QED BY <1>4, <1>5, <2>3, <2>6, CallStep, Zenon
<1>8. CASE /\ proc[h].slot = "snap" /\ ~lease[h]["own"].released
           /\ proc' = [proc EXCEPT ![h].pc = "work"]
           /\ lease' = [lease EXCEPT ![h]["snap"] = NoLease]
  <2> DEFINE p == [proc[h] EXCEPT !.pc = "work"]
             l == [lease[h] EXCEPT !["snap"] = NoLease]
  <2>1. "work" \in Pcs /\ NoLease \in Lease /\ NoLease.released /\ NoLease.mounts = {}
    BY Zenon DEF Pcs, NoLease, Lease
  <2>2. /\ p \in Proc /\ p.pc = "work" /\ p.kind = proc[h].kind /\ p.slot = proc[h].slot
        /\ p.todo = proc[h].todo /\ proc' = [proc EXCEPT ![h] = p]
    <3>1. p \in Proc
      BY <1>3, <2>1, ProcWith, Zenon
    <3>2. /\ p.pc = "work" /\ p.kind = proc[h].kind /\ p.slot = proc[h].slot
          /\ p.todo = proc[h].todo
      BY <1>3, Zenon DEF Proc
    <3>3. proc' = [proc EXCEPT ![h] = p]
      BY <1>8, Zenon
    <3> QED BY <3>1, <3>2, <3>3, Zenon
  <2>3. /\ l \in [Slots -> Lease] /\ l["snap"] = NoLease /\ l["own"] = lease[h]["own"]
        /\ lease' = [lease EXCEPT ![h] = l]
    BY <1>3, <1>8, <2>1
  <2> HIDE DEF p, l
  <2>4. Typed /\ OthersMoveNot(h) /\ proc'[h] = p /\ lease'[h] = l
    BY <1>1, <2>2, <2>3, Moved, Zenon DEF Typed, OthersMoveNot
  <2>5. HeldStays
    <3>1. Held(h, "snap") = {} /\ Held(h, "snap")' = {}
      BY <1>1, <1>8, <2>1, <2>2, <2>3, <2>4, Zenon DEF Held
    <3>2. Held(h, "own")' = Held(h, "own")
      BY <1>3, <1>8, <2>2, <2>3, <2>4 DEF Held
    <3>3. \A g \in Procs \ {h}, s \in Slots : Held(g, s)' = Held(g, s)
      BY <2>4, OthersHold DEF OthersMoveNot
    <3> QED BY <1>3, <3>1, <3>2, <3>3 DEF HeldStays
  <2>6. proc[h].kind \notin {"mount", "unmount"}
    BY Zenon, <1>2, <1>8, <2>1
  <2>7. Place(h)'
    BY Zenon, <1>5, <2>1, <2>2, <2>3, <2>4, <2>6 DEF Place
  <2>8. Reach(h)' \subseteq Reach(h)
    BY <2>1, <2>2, <2>3, <2>4 DEF Reach
  <2>9. GoesOn(h)
    BY <1>1, <1>4, <2>2, <2>4, <2>6, <2>7, <2>8, CallerGoesOn, Zenon
  <2> QED BY <1>4, <1>5, <2>4, <2>5, <2>9, CallStep, Zenon
<1>9. ASSUME proc[h].slot = "snap" => lease[h]["own"].released,
             proc[h].slot = "own" => mu # h,
             NEW p \in Proc, proc' = [proc EXCEPT ![h] = p],
             \/ p = Idle /\ ~(mu = h /\ proc[h].kind = "mount")
             \/ mu = h /\ proc[h].kind = "mount" /\ p = [proc[h] EXCEPT !.pc = "discard"],
             lease' = [lease EXCEPT ![h] = [s \in Slots |-> NoLease]]
      PROVE  Preserved
  <2> DEFINE l == [s \in Slots |-> NoLease]
  <2>1. NoLease \in Lease /\ NoLease.released /\ NoLease.mounts = {}
    BY DEF NoLease, Lease
  <2>2. /\ l \in [Slots -> Lease] /\ l["snap"] = NoLease /\ l["own"] = NoLease
        /\ lease' = [lease EXCEPT ![h] = l]
    BY <1>3, <1>9, <2>1
  <2> HIDE DEF l
  <2>3. Typed /\ OthersMoveNot(h) /\ proc'[h] = p /\ lease'[h] = l
    BY <1>1, <1>9, <2>2, Moved, Zenon DEF Typed, OthersMoveNot
  <2>h. \A s \in Slots : Held(h, s) = {}
    <3>1. Held(h, proc[h].slot) = {}
      BY <1>1 DEF Held
    <3>2. \A s \in Slots : s # proc[h].slot => lease[h][s].released
      BY <1>2, <1>3, <1>9
    <3>3. \A s \in Slots : s # proc[h].slot => Held(h, s) = {}
      BY <3>2 DEF Held
    <3> QED BY <3>1, <3>3
  <2>k. p.pc # "release" => HeldStays
    <3>1. \A s \in Slots : lease'[h][s].released
      BY <1>3, <2>1, <2>2, <2>3
    <3>2. p.pc # "release" => \A s \in Slots : Held(h, s)' = {}
      BY Zenon, <2>3, <3>1 DEF Held
    <3>3. \A g \in Procs \ {h}, s \in Slots : Held(g, s)' = Held(g, s)
      BY Zenon, <2>3, OthersHold DEF OthersMoveNot
    <3> QED BY <2>h, <3>2, <3>3 DEF HeldStays
  <2>4. CASE p = Idle
    <3>1. p.pc = "idle" /\ p.kind = "turn" /\ p.todo = {}
      BY Zenon, <2>4, IdleRecord
    <3> QED
      <4>1. HeldStays
        BY Zenon, <2>k, <3>1
      <4>2. Place(h)'
        BY Zenon, <1>5, <2>2, <2>3, <2>4, <3>1 DEF Place
      <4>3. Reach(h)' = {}
        BY <2>1, <2>2, <2>3, <3>1 DEF Reach
      <4>4. ~Mounting(h)' /\ ~Publishing(h)'
        BY <2>3, <3>1, Zenon DEF Mounting, Publishing
      <4>5. ~Mounting(h)
        BY <1>1, <1>9, <2>4, <3>1 DEF Mounting, Proc
      <4>6. GoesOn(h)
        BY <1>4, <2>3, <3>1, <4>2, <4>3, <4>4, <4>5, Zenon DEF GoesOn
      <4> QED BY <1>4, <1>5, <2>3, <4>1, <4>6, CallStep, Zenon
  <2>5. CASE mu = h /\ proc[h].kind = "mount" /\ p = [proc[h] EXCEPT !.pc = "discard"]
    <3>1. /\ p.pc = "discard" /\ p.kind = "mount" /\ p.todo = {} /\ p.slot = "snap"
          /\ p.mount = proc[h].mount
      BY <1>1, <1>2, <1>3, <2>5 DEF Proc
    <3>2. HeldStays
      BY Zenon, <2>k, <3>1
    <3>3. Place(h)'
      BY Zenon, <1>5, <2>2, <2>3, <3>1 DEF Place
    <3>4. Reach(h)' = {}
      BY <2>1, <2>2, <2>3, <3>1 DEF Reach
    <3>5. Mounting(h)' /\ ~Publishing(h)' /\ Mounting(h)
      BY Zenon, <1>1, <2>3, <2>5, <3>1 DEF Mounting, Publishing
    <3>6. GoesOn(h)
      BY Zenon, <1>4, <2>3, <3>1, <3>3, <3>4, <3>5 DEF GoesOn, Counted
    <3> QED BY <1>4, <1>5, <2>3, <3>2, <3>6, CallStep, Zenon
  <2> QED BY <1>9, <2>4, <2>5
<1>10. CASE /\ proc[h].slot = "snap" => lease[h]["own"].released
            /\ proc[h].slot = "own" => mu # h /\ proc[h].kind # "resume"
            /\ proc' = [proc EXCEPT ![h] = IF mu = h /\ proc[h].kind = "mount"
                                           THEN [proc[h] EXCEPT !.pc = "discard"] ELSE Idle]
            /\ lease' = [lease EXCEPT ![h] = [s \in Slots |-> NoLease]]
  <2>1. "discard" \in Pcs
    BY DEF Pcs
  <2>2. [proc[h] EXCEPT !.pc = "discard"] \in Proc
    BY <1>3, <2>1, ProcWith, Zenon
  <2>3. CASE mu = h /\ proc[h].kind = "mount"
    BY <1>9, <1>10, <2>2, <2>3, Zenon
  <2>4. CASE ~(mu = h /\ proc[h].kind = "mount")
    BY <1>9, <1>10, <2>4, IdleRecord, Zenon
  <2> QED BY <2>3, <2>4
<1> QED BY <1>6, <1>7, <1>8, <1>10, Zenon DEF ReleaseDone


-----------------------------------------------------------------------------
(***************************************************************************)
(* References are taken and given back mount by mount.                     *)
(***************************************************************************)

\* One mount is replaced by one that differs in its references.
LEMMA MountChanged ==
    ASSUME Structure, NEW m \in DOMAIN mounts, NEW r \in MountState,
           mounts' = [mounts EXCEPT ![m] = r], Counts(r),
           r.plugin = mounts[m].plugin, r.retired = mounts[m].retired,
           \/ r.closes = mounts[m].closes
           \/ r.closes > 0 /\ mounts[m].retired
    PROVE  /\ MountsKept /\ mounts' \in Seq(MountState) /\ Len(mounts') = Len(mounts)
           /\ mounts'[m] = r /\ \A n \in DOMAIN mounts : n # m => mounts'[n] = mounts[n]
<1>1. TypeOK /\ \A n \in DOMAIN mounts : Counts(mounts[n])
  BY DEF Structure
<1>2. /\ mounts' \in Seq(MountState) /\ Len(mounts') = Len(mounts)
      /\ DOMAIN mounts' = DOMAIN mounts /\ mounts'[m] = r
      /\ \A n \in DOMAIN mounts : n # m => mounts'[n] = mounts[n]
  BY <1>1, Replaced, Zenon
<1>3. MountsKept
  BY <1>1, <1>2 DEF MountsKept
<1> QED BY <1>2, <1>3

\* mountState.acquire.
LEMMA AcquireMountStep ==
    ASSUME Structure, NEW h \in Procs, AcquireMount(h)
    PROVE  Preserved
<1>0. TypeOK /\ proc[h].slot \in Slots
  BY Zenon, ProcTypes DEF Structure
<1> PICK slot \in Slots : slot = proc[h].slot
  BY <1>0
<1>1. Known /\ Place(h) /\ proc[h].pc = "acquire" /\ TypeOK
  BY Zenon DEF Structure, AcquireMount
<1>2. /\ mu = h /\ ~lease[h][slot].released /\ proc[h].todo \cap lease[h][slot].mounts = {}
      /\ proc[h].pc # "release" /\ proc[h].pc # "idle"
      /\ proc[h].kind \in {"mount", "unmount"} => slot = "snap"
      /\ slot = "snap" => lease[h]["own"] = NoLease
      /\ proc[h].kind = "mount" => Mounting(h)
  BY Zenon, <1>1 DEF Place, Mounting
<1>3. /\ mu' = mu /\ pinned' = pinned /\ current' = current /\ closed' = closed /\ closer' = closer
  BY DEF AcquireMount
<1>4. CASE Release(h, slot) /\ mounts' = mounts
  <2>1. Returning(h, slot)
    BY <1>1, <1>2, <1>4, ReleaseBegins, Zenon
  <2>2. UNCHANGED <<mounts, current, closed, closer>>
    BY Zenon, <1>3, <1>4
  <2> QED BY <1>1, <1>2, <1>3, <2>1, <2>2, ReleaseStep, Zenon
<1>5. ASSUME NEW m \in proc[h].todo, ~mounts[m].closing,
             mounts' = [mounts EXCEPT ![m] = Referred(@)],
             lease' = [lease EXCEPT ![h][slot].mounts = @ \cup {m}],
             proc' = [proc EXCEPT ![h].todo = @ \ {m}]
      PROVE  Preserved
  <2> DEFINE p == [proc[h] EXCEPT !.todo = proc[h].todo \ {m}]
             e == [lease[h][slot] EXCEPT !.mounts = lease[h][slot].mounts \cup {m}]
             l == [lease[h] EXCEPT ![slot] = e]
             r == Referred(mounts[m])
  <2>1. /\ proc[h] \in Proc /\ lease[h][slot] \in Lease /\ lease[h] \in [Slots -> Lease]
        /\ proc[h].todo \subseteq MountIds /\ lease[h][slot].mounts \subseteq MountIds
    BY Zenon, <1>1, ProcTypes DEF TypeOK
  <2>2. m \in DOMAIN mounts /\ mounts[m] \in MountState /\ Counts(mounts[m])
    BY <1>1, <1>5, Domains DEF Known, Reach, Structure
  <2>3. /\ p \in Proc /\ p.todo = proc[h].todo \ {m} /\ p.pc = proc[h].pc
        /\ p.kind = proc[h].kind /\ p.slot = proc[h].slot /\ p.mount = proc[h].mount
    <3>1. proc[h].todo \ {m} \in SUBSET MountIds
      BY <2>1
    <3>2. p \in Proc
      BY <2>1, <3>1, Zenon DEF Proc
    <3>3. /\ p.todo = proc[h].todo \ {m} /\ p.pc = proc[h].pc
          /\ p.kind = proc[h].kind /\ p.slot = proc[h].slot /\ p.mount = proc[h].mount
      BY <2>1, Zenon DEF Proc
    <3> QED BY <3>2, <3>3, Zenon
  <2>4. /\ e \in Lease /\ e.mounts = lease[h][slot].mounts \cup {m}
        /\ e.released = lease[h][slot].released
    <3>1. lease[h][slot].mounts \cup {m} \in SUBSET MountIds
      BY <1>5, <2>1
    <3> QED BY <2>1, <3>1, Zenon DEF Lease
  <2>5. /\ proc' = [proc EXCEPT ![h] = p] /\ lease' = [lease EXCEPT ![h] = l]
        /\ mounts' = [mounts EXCEPT ![m] = r]
    BY <1>5, Zenon
  <2> HIDE DEF e, p
  <2>6. l \in [Slots -> Lease] /\ l[slot] = e /\ \A s \in Slots \ {slot} : l[s] = lease[h][s]
    BY Zenon, <2>1, <2>4
  <2> HIDE DEF l
  <2>7. Typed /\ OthersMoveNot(h) /\ proc'[h] = p /\ lease'[h] = l
    BY <1>1, <2>3, <2>5, <2>6, Moved, Zenon DEF Typed, OthersMoveNot
  <2>8. /\ r \in MountState /\ Counts(r) /\ r.plugin = mounts[m].plugin
        /\ r.retired = mounts[m].retired /\ r.closes = mounts[m].closes
        /\ r.refs = mounts[m].refs + 1
    BY <1>5, <2>2, Referring
  <2> HIDE DEF r
  <2>9. /\ MountsKept /\ mounts' \in Seq(MountState) /\ Len(mounts') = Len(mounts)
        /\ mounts'[m] = r /\ \A n \in DOMAIN mounts : n # m => mounts'[n] = mounts[n]
    BY <2>2, <2>5, <2>8, MountChanged, Zenon
  <2>10. Tally
    <3>1. Held(h, slot) = lease[h][slot].mounts
      BY Zenon, <1>1, <1>2 DEF Held
    <3>2. Held(h, slot)' = Held(h, slot) \cup {m}
      <4>1. proc'[h].pc # "release" /\ ~lease'[h][slot].released
            /\ lease'[h][slot].mounts = lease[h][slot].mounts \cup {m}
        BY <1>2, <2>3, <2>4, <2>6, <2>7, Zenon
      <4> QED BY <3>1, <4>1, Zenon DEF Held
    <3>3. m \notin Held(h, slot)
      BY Zenon, <1>2, <1>5, <3>1
    <3>4. \A s \in Slots : s # slot => Held(h, s)' = Held(h, s)
      BY <1>2, <2>3, <2>6, <2>7, Zenon DEF Held
    <3>5. \A g \in Procs \ {h}, s \in Slots : Held(g, s)' = Held(g, s)
      BY <2>7, OthersHold DEF OthersMoveNot
    <3>6. \A g \in Procs, s \in Slots : g # h \/ s # slot => Held(g, s)' = Held(g, s)
      BY Zenon, <3>4, <3>5
    <3>7. /\ DOMAIN mounts' = DOMAIN mounts /\ mounts'[m].refs = mounts[m].refs + 1
          /\ \A n \in DOMAIN mounts : n # m => mounts'[n].refs = mounts[n].refs
      BY <2>8, <2>9 DEF MountsKept
    <3> QED BY Zenon, <1>1, <2>2, <3>2, <3>3, <3>6, <3>7, HeldMore
  <2>11. Place(h)'
    <3>1. slot = "snap" => lease'[h]["own"] = NoLease
      BY <1>2, <2>6, <2>7, Zenon DEF Slots
    <3>2. /\ proc'[h].pc = "acquire" /\ proc'[h].slot = slot /\ proc'[h].kind = proc[h].kind
          /\ proc'[h].todo = proc[h].todo \ {m} /\ ~lease'[h][slot].released
          /\ lease'[h][slot].mounts = lease[h][slot].mounts \cup {m} /\ mu' = h
      BY <1>1, <1>2, <1>3, <2>3, <2>4, <2>6, <2>7, Zenon
    <3>3. proc'[h].todo \cap lease'[h][slot].mounts = {}
      BY Zenon, <1>2, <3>2
    <3> QED BY <1>2, <3>1, <3>2, <3>3, Zenon DEF Place
  <2>12. Reach(h)' \subseteq Reach(h)
    <3>1. /\ lease'[h]["snap"].mounts \subseteq Reach(h) /\ lease'[h]["own"].mounts \subseteq Reach(h)
      BY ZenonT(60), <1>1, <1>5, <2>4, <2>6, <2>7 DEF Reach, Slots
    <3>2. proc'[h].todo \subseteq Reach(h)
      BY Zenon, <2>3, <2>7 DEF Reach
    <3> QED BY Zenon, <3>1, <3>2 DEF Reach
  <2>13. Publishing(h)' => Planned(h)'
    <3> SUFFICES ASSUME Publishing(h)' PROVE Planned(h)'
      OBVIOUS
    <3>1. Publishing(h) /\ proc[h].kind \in {"mount", "unmount"}
      BY Zenon, <1>1, <2>3, <2>7 DEF Publishing
    <3>2. Planned(h) /\ (proc[h].kind = "mount" => proc[h].mount \in DOMAIN mounts)
      BY Zenon, <1>2, <3>1 DEF Structure, Private
    <3>3. proc'[h].todo \cup lease'[h]["snap"].mounts = proc[h].todo \cup lease[h]["snap"].mounts
      BY SMT, SMTT(30), <1>2, <1>5, <2>3, <2>4, <2>6, <2>7, <3>1
    <3>4. proc'[h].kind = proc[h].kind /\ proc'[h].mount = proc[h].mount
      BY Zenon, <2>3, <2>7
    <3>5. PluginsKept /\ current \subseteq DOMAIN mounts
      BY <1>1, <2>9 DEF Known, MountsKept, PluginsKept
    <3> QED BY Zenon, <1>3, <3>2, <3>3, <3>4, <3>5, PlanKept
  <2>14. GoesOn(h)
    <3>1. Mounting(h)' <=> Mounting(h)
      BY Zenon, <1>3, <2>3, <2>7 DEF Mounting
    <3>2. /\ proc'[h].kind = proc[h].kind /\ proc'[h].pc = proc[h].pc
          /\ proc'[h].mount = proc[h].mount
      BY Zenon, <2>3, <2>7
    <3> QED BY <1>3, <2>11, <2>12, <2>13, <3>1, <3>2, Zenon DEF GoesOn
  <2>15. TypeOK'
    BY <1>1, <1>3, <2>7, <2>9, Zenon DEF TypeOK, Typed, MountsKept
  <2>16. OthersStay(h)
    BY <1>3, <2>7 DEF OthersStay, OthersMoveNot
  <2>17. Quiet(h)
    BY <1>3, <2>9, <2>10, <2>14, <2>15, <2>16, Zenon DEF Quiet
  <2> QED BY Zenon, <2>17, QuietStep
<1> QED
  <2>1. PICK m \in proc[h].todo :
           IF mounts[m].closing
           THEN Release(h, slot) /\ UNCHANGED mounts
           ELSE /\ mounts' = [mounts EXCEPT ![m] = Referred(@)]
                /\ lease' = [lease EXCEPT ![h][slot].mounts = @ \cup {m}]
                /\ proc' = [proc EXCEPT ![h].todo = @ \ {m}]
    BY Zenon DEF AcquireMount
  <2>2. CASE mounts[m].closing
    BY <1>4, <2>1, <2>2, Zenon
  <2>3. CASE ~mounts[m].closing
    BY <1>5, <2>1, <2>3, Zenon
  <2> QED BY <2>2, <2>3

\* mountState.release.
LEMMA ReleaseMountStep ==
    ASSUME Structure, HeldCounted, NEW h \in Procs, ReleaseMount(h)
    PROVE  Preserved
<1>0. TypeOK /\ proc[h].slot \in Slots /\ proc[h] \in Proc /\ proc[h].todo \subseteq MountIds
  BY ProcTypes, Zenon DEF Structure
<1> PICK slot \in Slots : slot = proc[h].slot
  BY <1>0
<1>1. Known /\ Place(h) /\ proc[h].pc = "release"
  BY DEF Structure, ReleaseMount
<1>2. /\ mu' = mu /\ pinned' = pinned /\ current' = current /\ closed' = closed
      /\ closer' = closer /\ lease' = lease
  BY DEF ReleaseMount
<1>3. PICK m \in proc[h].todo : /\ mounts' = [mounts EXCEPT ![m] = Released(@)]
                                /\ proc' = [proc EXCEPT ![h].todo = @ \ {m}]
  BY Zenon DEF ReleaseMount
<1> DEFINE p == [proc[h] EXCEPT !.todo = proc[h].todo \ {m}]
           r == Released(mounts[m])
<1>4. proc' = [proc EXCEPT ![h] = p] /\ mounts' = [mounts EXCEPT ![m] = r]
  BY <1>3, Zenon
<1>5. Held(h, slot) = proc[h].todo
  BY <1>1 DEF Held
<1>6. m \in DOMAIN mounts /\ mounts[m] \in MountState /\ Counts(mounts[m])
  BY <1>0, <1>1, <1>3, Domains DEF Known, Reach, Structure
<1>7. mounts[m].refs > 0
  BY <1>5, <1>6 DEF HeldCounted
<1>8. /\ p \in Proc /\ p.todo = proc[h].todo \ {m} /\ p.pc = proc[h].pc
      /\ p.kind = proc[h].kind /\ p.slot = proc[h].slot /\ p.mount = proc[h].mount
  <2>1. proc[h].todo \ {m} \in SUBSET MountIds
    BY <1>0
  <2>2. p \in Proc
    BY <1>0, <2>1, Zenon DEF Proc
  <2>3. /\ p.todo = proc[h].todo \ {m} /\ p.pc = proc[h].pc
        /\ p.kind = proc[h].kind /\ p.slot = proc[h].slot /\ p.mount = proc[h].mount
    BY <1>0, Zenon DEF Proc
  <2> QED BY <2>2, <2>3, Zenon
<1> HIDE DEF p
<1>9. /\ r \in MountState /\ Counts(r) /\ r.plugin = mounts[m].plugin
      /\ r.retired = mounts[m].retired /\ r.closes = mounts[m].closes
      /\ r.refs = mounts[m].refs - 1
  BY <1>6, <1>7, Releases, Zenon
<1> HIDE DEF r
<1>10. /\ MountsKept /\ mounts' \in Seq(MountState) /\ Len(mounts') = Len(mounts)
       /\ mounts'[m] = r /\ \A n \in DOMAIN mounts : n # m => mounts'[n] = mounts[n]
  BY <1>4, <1>6, <1>9, MountChanged, Zenon
<1>11. Typed /\ proc'[h] = p /\ lease'[h] = lease[h]
  BY Zenon, <1>0, <1>2, <1>4, <1>8 DEF TypeOK, Typed
<1>12. OthersMoveNot(h)
  BY Zenon, <1>0, <1>2, <1>4 DEF TypeOK, OthersMoveNot
<1>13. Tally
  <2>1. Held(h, slot)' = Held(h, slot) \ {m}
    BY <1>1, <1>5, <1>8, <1>11, Zenon DEF Held
  <2>2. \A s \in Slots : s # slot => Held(h, s)' = Held(h, s)
    BY Zenon, <1>8, <1>11 DEF Held
  <2>3. \A g \in Procs \ {h}, s \in Slots : Held(g, s)' = Held(g, s)
    BY <1>12, OthersHold DEF OthersMoveNot
  <2>4. \A g \in Procs, s \in Slots : g # h \/ s # slot => Held(g, s)' = Held(g, s)
    BY <2>2, <2>3
  <2>5. /\ DOMAIN mounts' = DOMAIN mounts /\ mounts'[m].refs = mounts[m].refs - 1
        /\ \A n \in DOMAIN mounts : n # m => mounts'[n].refs = mounts[n].refs
    BY Zenon, <1>9, <1>10 DEF MountsKept
  <2>6. m \in Held(h, slot)
    BY <1>5
  <2> QED BY SMT, SMTT(30), <1>1, <1>6, <2>1, <2>4, <2>5, <2>6, HeldLess
<1>14. GoesOn(h)
  <2>1. /\ proc'[h].kind = proc[h].kind /\ proc'[h].pc = "release" /\ proc'[h].slot = slot
        /\ proc'[h].mount = proc[h].mount /\ proc'[h].todo = proc[h].todo \ {m}
    BY Zenon, <1>1, <1>8, <1>11
  <2>2. Place(h)'
    BY <1>1, <1>2, <1>11, <2>1, Zenon DEF Place
  <2>3. Reach(h)' \subseteq Reach(h)
    BY <1>11, <2>1, Zenon DEF Reach
  <2>4. (Mounting(h)' <=> Mounting(h)) /\ ~Publishing(h)'
    BY Zenon, <1>1, <1>2, <2>1 DEF Mounting, Publishing
  <2>5. pinned' = pinned /\ proc[h].pc # "idle"
    BY <1>1, <1>2
  <2> QED BY <2>1, <2>2, <2>3, <2>4, <2>5, Zenon DEF GoesOn
<1>15. TypeOK'
  BY <1>0, <1>2, <1>10, <1>11, Zenon DEF TypeOK, Typed, MountsKept
<1>16. OthersStay(h)
  BY <1>2, <1>12 DEF OthersStay, OthersMoveNot
<1>17. Quiet(h)
  BY <1>2, <1>10, <1>13, <1>14, <1>15, <1>16, Zenon DEF Quiet
<1> QED BY <1>17, QuietStep

\* What add accepts depends on the snapshot and its mounts.
LEMMA AddsStill ==
    ASSUME mounts' = mounts, current' = current, NEW p, Adds(p)
    PROVE  Adds(p)'
BY SMT, SMTT(30) DEF Adds, Names, Valid, ResourcesOf

\* Mount: the staged plugin is accepted or refused.
LEMMA MountStep ==
    ASSUME Structure, NEW h \in Procs, Mount(h)
    PROVE  Preserved
<1>1. TypeOK /\ Known /\ Place(h) /\ proc[h].pc = "opened" /\ mu = Free
  BY Zenon DEF Structure, Mount
<1>2. /\ lease[h]["snap"] = NoLease /\ lease[h]["own"] = NoLease /\ mu # h /\ proc[h].todo = {}
      /\ proc[h].kind = "mount" /\ proc[h].slot = "snap" /\ Mounting(h)
  BY Zenon, <1>1 DEF Place, Mounting
<1>3. Private(h) /\ proc[h] \in Proc /\ proc[h].mount \in 0..MaxMounts
  BY <1>1, <1>2, ProcTypes, Zenon DEF Structure
<1>4. pinned' = pinned /\ UNCHANGED <<mounts, current, closed, closer>>
  BY Zenon DEF Mount
<1>5. CASE proc' = [proc EXCEPT ![h].pc = "discard"] /\ UNCHANGED <<mu, lease>>
  <2> DEFINE p == [proc[h] EXCEPT !.pc = "discard"]
  <2>1. "discard" \in Pcs /\ "discard" # "release" /\ mu' = mu /\ lease' = lease
        /\ proc[h].pc # "release"
    BY <1>1, <1>5 DEF Pcs
  <2>2. p \in Proc
    BY <1>3, <2>1, ProcWith, Zenon
  <2>3. /\ p.pc = "discard" /\ p.kind = proc[h].kind /\ p.slot = proc[h].slot
        /\ p.todo = proc[h].todo /\ p.mount = proc[h].mount
    BY <1>3, Zenon DEF Proc
  <2>4. proc' = [proc EXCEPT ![h] = p]
    BY <1>5, Zenon
  <2> HIDE DEF p
  <2>5. Typed /\ OthersMoveNot(h) /\ HeldStays /\ proc'[h] = p /\ lease'[h] = lease[h]
    BY <1>1, <2>1, <2>2, <2>3, <2>4, MovesOn, Zenon
  <2>6. Place(h)'
    BY <1>2, <2>1, <2>3, <2>5, Zenon DEF Place
  <2>7. Reach(h)' = Reach(h)
    BY <2>3, <2>5, Zenon DEF Reach
  <2>8. Mounting(h)' /\ ~Publishing(h)' /\ proc'[h].mount = proc[h].mount
        /\ proc'[h].kind \notin Counted
    BY Zenon, <1>2, <2>3, <2>5 DEF Mounting, Publishing, Counted
  <2>9. GoesOn(h)
    BY <1>2, <1>4, <2>6, <2>7, <2>8, Zenon DEF GoesOn
  <2> QED BY <1>4, <2>1, <2>5, <2>9, CallStep, Zenon
<1>6. ASSUME ~closed, Adds(mounts[proc[h].mount].plugin),
             Acquire(h, "mount", "snap", current \cup {proc[h].mount}, proc[h].mount)
      PROVE  Preserved
  <2> PICK m \in 0..MaxMounts : m = proc[h].mount
    BY Zenon, <1>3
  <2> PICK S : S = current \cup {m}
    BY Zenon
  <2>1. S \in SUBSET MountIds /\ "snap" \in Slots /\ "own" \in Slots \ {"snap"} /\ "mount" \in Kinds
        /\ proc[h].pc # "release"
    BY Zenon, <1>1, <1>3, Domains DEF Known, Slots, Kinds, Private
  <2>2. Acquire(h, "mount", "snap", S, m)
    BY <1>6
  <2>3. Entered(h, "mount", "snap", S, m)
    BY <1>1, <1>2, <2>1, <2>2, Acquires, Zenon
  <2>4. lease'[h]["own"] = NoLease
    BY <1>2, <2>1, <2>3, Zenon DEF Entered
  <2>5. /\ proc'[h].pc = "acquire" /\ proc'[h].kind = "mount" /\ proc'[h].mount = m
        /\ proc'[h].slot = "snap" /\ lease'[h]["snap"].mounts = {} /\ mu' = h
        /\ ~lease'[h]["snap"].released /\ mu = Free
        /\ Typed /\ OthersMoveNot(h) /\ HeldStays /\ proc'[h].todo = S
    BY <2>3, Zenon DEF Entered
  <2>6. Place(h)'
    BY Zenon, <2>4, <2>5 DEF Place
  <2>7. Reach(h)' = S
    <3>1. lease'[h]["own"].mounts = {}
      BY Zenon, <2>4, LeaseRecord
    <3> QED BY Zenon, <2>5, <3>1 DEF Reach
  <2>8. Planned(h)'
    <3>1. /\ Adds(mounts[m].plugin) /\ ~closed' /\ mounts' = mounts /\ current' = current
      BY Zenon, <1>4, <1>6
    <3>2. Adds(mounts[m].plugin)'
      BY Zenon, <3>1, AddsStill
    <3>3. proc'[h].todo \cup lease'[h]["snap"].mounts = current' \cup {m}
      BY Zenon, <1>4, <2>5
    <3> QED BY Zenon, <2>5, <3>1, <3>2, <3>3 DEF Planned
  <2>9. GoesOn(h)
    <3>1. \A n \in Reach(h)' : n \in current \/ (Mounting(h) /\ n = proc[h].mount)
      BY <1>2, <2>7
    <3>2. Mounting(h)' /\ proc'[h].mount = proc[h].mount /\ proc'[h].kind \notin Counted
      BY Zenon, <2>5 DEF Mounting, Counted
    <3> QED BY <1>2, <1>4, <2>6, <2>8, <3>1, <3>2, Zenon DEF GoesOn
  <2> QED BY <1>4, <2>5, <2>9, CallStep, Zenon
<1> QED BY <1>5, <1>6, Zenon DEF Mount

\* Unmount: what is left is acquired.
LEMMA UnmountStep ==
    ASSUME Structure, NEW h \in Procs, NEW m \in current, Unmount(h, m)
    PROVE  Preserved
<1>1. TypeOK /\ Known /\ Place(h) /\ proc[h] = Idle /\ CompositionValid
  BY Zenon DEF Structure, Unmount
<1>2. /\ proc[h].pc = "idle" /\ proc[h].kind = "turn" /\ proc[h].pc # "release"
      /\ lease[h]["snap"] = NoLease /\ lease[h]["own"] = NoLease
  BY <1>1, IdleRecord, Zenon DEF Place
<1>3. ~closed /\ m \in DOMAIN mounts /\ m \in 0..MaxMounts
  <2>1. ~closed /\ m \in MountIds
    BY Zenon, <1>1, Domains DEF CompositionValid, Known
  <2> QED BY <1>1, <2>1, CompositionAssumption DEF MountIds, Known
<1>4. pinned' = pinned /\ UNCHANGED <<mounts, current, closed, closer>>
  BY Zenon DEF Unmount
<1> PICK S : S = current \ {m}
  BY Zenon
<1>5. S \in SUBSET MountIds /\ "snap" \in Slots /\ "own" \in Slots \ {"snap"} /\ "unmount" \in Kinds
  BY <1>1, Domains DEF Known, Slots, Kinds
<1>6. Acquire(h, "unmount", "snap", S, m)
  BY DEF Unmount
<1>7. Entered(h, "unmount", "snap", S, m)
  BY <1>1, <1>2, <1>3, <1>5, <1>6, Acquires, Zenon
<1>8. lease'[h]["own"] = NoLease
  BY <1>2, <1>5, <1>7, Zenon DEF Entered
<1>9. /\ proc'[h].pc = "acquire" /\ proc'[h].kind = "unmount" /\ proc'[h].mount = m
      /\ proc'[h].slot = "snap" /\ lease'[h]["snap"].mounts = {} /\ mu' = h
      /\ ~lease'[h]["snap"].released /\ mu = Free
      /\ Typed /\ OthersMoveNot(h) /\ HeldStays /\ proc'[h].todo = S
  BY <1>7, Zenon DEF Entered
<1>10. Place(h)'
  BY Zenon, <1>8, <1>9 DEF Place
<1>11. Reach(h)' = S
  <2>1. lease'[h]["own"].mounts = {}
    BY Zenon, <1>8, LeaseRecord
  <2> QED BY <1>9, <2>1 DEF Reach
<1>12. Planned(h)'
  <2>1. Valid(Names(current \ {m}))' /\ ~closed' /\ m \in current'
    BY SMT, SMTT(30), <1>3, <1>4 DEF Unmount, Names, Valid, ResourcesOf
  <2>2. proc'[h].todo \cup lease'[h]["snap"].mounts = current' \ {m}
    BY Zenon, <1>4, <1>9
  <2> QED BY Zenon, <1>9, <2>1, <2>2 DEF Planned
<1>13. GoesOn(h)
  <2>1. \A n \in Reach(h)' : n \in current
    BY Zenon, <1>11
  <2>2. ~Mounting(h)' /\ ~Mounting(h) /\ proc'[h].kind \notin Counted
    BY Zenon, <1>2, <1>9 DEF Mounting, Counted
  <2> QED BY <1>4, <1>10, <1>12, <2>1, <2>2, Zenon DEF GoesOn
<1> QED BY <1>4, <1>9, <1>13, CallStep, Zenon

\* The goroutine of startCloseLocked.
LEMMA CloseConnectionStep ==
    ASSUME Structure, NEW m \in DOMAIN mounts, CloseConnection(m)
    PROVE  Preserved
<1> PICK r : r = [ConnectionClosed(mounts[m]) EXCEPT !.closers = @ - 1]
  BY Zenon
<1>1. TypeOK /\ Counts(mounts[m]) /\ mounts[m] \in MountState
  BY Domains DEF Structure
<1>2. /\ mounts[m].closers > 0 /\ mounts' = [mounts EXCEPT ![m] = r]
      /\ current' = current /\ closed' = closed /\ mu' = mu /\ proc' = proc /\ lease' = lease
      /\ pinned' = pinned /\ closer' = closer
  <2>1. /\ mounts[m].closers > 0
        /\ mounts' = [mounts EXCEPT ![m] = [ConnectionClosed(mounts[m]) EXCEPT !.closers = @ - 1]]
    BY Zenon DEF CloseConnection
  <2>2. /\ current' = current /\ closed' = closed /\ mu' = mu /\ proc' = proc /\ lease' = lease
        /\ pinned' = pinned /\ closer' = closer
    BY Zenon DEF CloseConnection
  <2> QED BY <2>1, <2>2, Zenon
<1>3. /\ r \in MountState /\ Counts(r) /\ mounts[m].retired /\ r.plugin = mounts[m].plugin
      /\ r.retired = mounts[m].retired /\ r.refs = mounts[m].refs /\ r.closes > 0
  BY <1>1, <1>2, Closing, Zenon
<1>4. /\ MountsKept /\ mounts' \in Seq(MountState) /\ Len(mounts') = Len(mounts)
      /\ mounts'[m] = r /\ \A n \in DOMAIN mounts : n # m => mounts'[n] = mounts[n]
  BY <1>2, <1>3, MountChanged, Zenon
<1>5. DOMAIN mounts' = DOMAIN mounts /\ \A n \in DOMAIN mounts : mounts'[n].refs = mounts[n].refs
  BY <1>3, <1>4, Zenon DEF MountsKept
<1>6. Tally
  <2>1. \A g \in Procs, s \in Slots : Held(g, s)' = Held(g, s)
    BY <1>2 DEF Held
  <2> QED BY <1>1, <1>5, <2>1, HeldSame
<1>7. TypeOK'
  BY <1>1, <1>2, <1>4, <1>5 DEF TypeOK
<1>8. OthersStay(Free)
  BY <1>2 DEF OthersStay
<1>9. Quiet(Free)
  BY <1>2, <1>4, <1>6, <1>7, <1>8, CompositionAssumption, Zenon DEF Quiet
<1> QED BY <1>9, QuietStep

\* Only the goroutine of finishClose moves.
LEMMA CloserStep ==
    ASSUME Structure, UNCHANGED <<mounts, current, closed, mu, proc, lease, pinned>>,
           closer' \in [pc : {"none", "work", "mounts", "done"}, waits : SUBSET MountIds],
           closer'.waits = closer.waits, Shutdown'
    PROVE  Preserved
<1>1. OthersStay(Free) /\ Free \notin Procs
  BY Zenon, CompositionAssumption DEF OthersStay
<1>2. \A g \in Procs : /\ Reach(g)' = Reach(g) /\ Mounting(g)' = Mounting(g)
                       /\ Publishing(g)' = Publishing(g) /\ Place(g)' = Place(g)
  BY Zenon, <1>1, Others
<1>3. TypeOK'
  BY DEF Structure, TypeOK
<1>4. Known'
  BY <1>2, Zenon DEF Structure, Known
<1>5. \A g \in Procs : Place(g)'
  BY Zenon, <1>2 DEF Structure
<1>6. ASSUME NEW g \in Procs, Mounting(g)' PROVE Private(g)'
  <2>1. Private(g)
    BY <1>2, <1>6, Zenon DEF Structure
  <2> QED BY Zenon, <1>2, <2>1 DEF Private
<1>7. ASSUME NEW m \in DOMAIN mounts' PROVE Counts(mounts'[m]) /\ Owned(m)'
  <2>1. Counts(mounts[m]) /\ Owned(m)
    BY Zenon DEF Structure
  <2>2. Gone(m) => Gone(m)'
    BY Zenon, <1>2 DEF Gone
  <2>3. Owned(m)'
    BY Zenon, <1>2, <2>1, <2>2 DEF Owned
  <2> QED BY Zenon, <2>1, <2>3
<1>8. ASSUME NEW g \in Procs, Publishing(g)' PROVE Planned(g)'
  <2>1. Planned(g)
    BY Zenon, <1>2, <1>8 DEF Structure
  <2>2. Adds(mounts[proc[g].mount].plugin) => Adds(mounts[proc[g].mount].plugin)'
    BY Zenon, AddsStill
  <2>3. Valid(Names(current \ {proc[g].mount})) => Valid(Names(current \ {proc[g].mount}))'
    BY SMT, SMTT(30) DEF Valid, Names, ResourcesOf
  <2> QED BY Zenon, <2>1, <2>2, <2>3 DEF Planned
<1>9. Tally
  <2>1. \A g \in Procs, s \in Slots : Held(g, s)' = Held(g, s)
    BY Zenon DEF Held, Structure
  <2>2. \A m \in DOMAIN mounts' : m \in DOMAIN mounts /\ mounts'[m].refs = mounts[m].refs
    BY Zenon
  <2> QED BY <2>1, <2>2, HeldSame, Zenon
<1>10. CompositionValid'
  BY DEF Structure, CompositionValid, Valid, Names, ResourcesOf
<1> QED BY <1>3, <1>4, <1>5, <1>6, <1>7, <1>8, <1>9, <1>10, Zenon DEF Structure, Preserved

\* finishClose has waited for the work...
LEMMA FinishWorkStep ==
    ASSUME Structure, FinishWork
    PROVE  Preserved
<1>1. /\ closer \in [pc : {"none", "work", "mounts", "done"}, waits : SUBSET MountIds]
      /\ Shutdown
  BY DEF Structure, TypeOK
<1>2. /\ closer.pc = "work" /\ closer' = [closer EXCEPT !.pc = "mounts"]
      /\ \A h \in Procs : proc[h].kind \in Counted => proc[h].pc = "idle"
      /\ UNCHANGED <<mounts, current, closed, mu, proc, lease, pinned>>
  BY DEF FinishWork
<1>3. /\ closer' \in [pc : {"none", "work", "mounts", "done"}, waits : SUBSET MountIds]
      /\ closer'.waits = closer.waits /\ closer'.pc = "mounts"
  BY <1>1, <1>2
<1>4. Shutdown'
  BY <1>1, <1>2, <1>3 DEF Shutdown
<1> QED BY <1>2, <1>3, <1>4, CloserStep

\* ... and for the retired mounts.
LEMMA FinishMountsStep ==
    ASSUME Structure, FinishMounts
    PROVE  Preserved
<1>1. /\ closer \in [pc : {"none", "work", "mounts", "done"}, waits : SUBSET MountIds]
      /\ Shutdown
  BY DEF Structure, TypeOK
<1>2. /\ closer.pc = "mounts" /\ closer' = [closer EXCEPT !.pc = "done"]
      /\ \A m \in closer.waits : mounts[m].closes > 0
      /\ UNCHANGED <<mounts, current, closed, mu, proc, lease, pinned>>
  BY DEF FinishMounts
<1>3. /\ closer' \in [pc : {"none", "work", "mounts", "done"}, waits : SUBSET MountIds]
      /\ closer'.waits = closer.waits /\ closer'.pc = "done"
  BY <1>1, <1>2
<1>4. Shutdown'
  BY Zenon, <1>1, <1>2, <1>3 DEF Shutdown
<1> QED BY <1>2, <1>3, <1>4, CloserStep

-----------------------------------------------------------------------------
(***************************************************************************)
(* Mounts come and go: opening, discarding, publication and Close.         *)
(***************************************************************************)

\* A published mount is open.
LEMMA PublishedOpen ==
    ASSUME Structure, NEW m \in current
    PROVE  /\ m \in DOMAIN mounts /\ mounts[m] \in MountState /\ Counts(mounts[m])
           /\ ~mounts[m].retired /\ mounts[m].closes = 0
           /\ \A g \in Procs : Mounting(g) => proc[g].mount # m
<1>1. m \in DOMAIN mounts
  BY Zenon DEF Structure, Known
<1>2. mounts[m] \in MountState
  BY <1>1, Domains DEF Structure
<1>3. Counts(mounts[m]) /\ Owned(m) /\ ~mounts[m].retired
  BY <1>1 DEF Structure, CompositionValid
<1>4. \A g \in Procs : Mounting(g) => proc[g].mount # m
  BY Zenon DEF Structure, Private
<1>5. mounts[m].closes = 0
  BY Zenon, <1>3, <1>4 DEF Owned, Gone
<1> QED BY Zenon, <1>1, <1>2, <1>3, <1>4, <1>5

\* A mount that another goroutine has opened stays private.
LEMMA StaysPrivate ==
    ASSUME NEW h, OthersStay(h), NEW g \in Procs \ {h}, Private(g),
           proc[g].mount \in DOMAIN mounts', mounts'[proc[g].mount] = mounts[proc[g].mount],
           proc[g].mount \notin current', proc[g].mount \notin pinned',
           h \in Procs => /\ proc[g].mount \notin Reach(h)'
                          /\ Mounting(h)' => proc'[h].mount # proc[g].mount
    PROVE  Private(g)'
<1>1. proc'[g].mount = proc[g].mount
  BY Zenon DEF OthersStay
<1>2. \A k \in Procs \ {h} : /\ Reach(k)' = Reach(k) /\ Mounting(k)' = Mounting(k)
                             /\ proc'[k] = proc[k]
  BY Zenon, Others DEF OthersStay
<1> PICK m : m = proc[g].mount
  BY Zenon
<1>3. /\ ~mounts[m].retired /\ mounts[m].closes = 0
      /\ \A k \in Procs \ {g} : m \notin Reach(k) /\ (Mounting(k) => proc[k].mount # m)
  BY Zenon DEF Private
<1>4. \A k \in Procs \ {g} : m \notin Reach(k)' /\ (Mounting(k)' => proc'[k].mount # m)
  BY Zenon, <1>2, <1>3
<1> QED BY Zenon, <1>1, <1>3, <1>4 DEF Private

\* RequestClose retires the composition.
LEMMA RequestCloseStep ==
    ASSUME Structure, RequestClose
    PROVE  Preserved
<1>1. TypeOK /\ Known /\ Shutdown
  BY DEF Structure
<1>2. /\ mu = Free /\ ~closed /\ closed' /\ current' = {} /\ closed' \in BOOLEAN
      /\ mounts' = [m \in DOMAIN mounts |-> IF m \in current THEN Retired(mounts[m]) ELSE mounts[m]]
      /\ closer' = [pc |-> "work", waits |-> current]
      /\ mu' = mu /\ proc' = proc /\ lease' = lease /\ pinned' = pinned
  BY DEF RequestClose
<1>3. OthersStay(Free) /\ Free \notin Procs
  BY <1>2, CompositionAssumption DEF OthersStay
<1>4. \A g \in Procs : /\ Reach(g)' = Reach(g) /\ Mounting(g)' = Mounting(g)
                       /\ Publishing(g)' = Publishing(g) /\ Place(g)' = Place(g)
  BY <1>3, Others
<1>5. DOMAIN mounts' = DOMAIN mounts /\ DOMAIN mounts \subseteq MountIds
  BY <1>1, <1>2, Domains
<1>6. \A m \in DOMAIN mounts : m \notin current => mounts'[m] = mounts[m]
  BY <1>2
<1>7. \A m \in current : /\ mounts'[m].retired /\ mounts'[m].refs = mounts[m].refs
                         /\ Counts(mounts'[m]) /\ mounts'[m] \in MountState
  <2> SUFFICES ASSUME NEW m \in current
               PROVE  /\ mounts'[m].retired /\ mounts'[m].refs = mounts[m].refs
                      /\ Counts(mounts'[m]) /\ mounts'[m] \in MountState
    OBVIOUS
  <2>1. /\ m \in DOMAIN mounts /\ mounts[m] \in MountState /\ Counts(mounts[m])
        /\ ~mounts[m].retired /\ mounts[m].closes = 0
    BY PublishedOpen
  <2>2. mounts'[m] = Retired(mounts[m])
    BY <1>2, <2>1
  <2> QED BY <2>1, <2>2, Retiring
<1>8. mounts' \in Seq(MountState) /\ Len(mounts') = Len(mounts)
  <2>1. Len(mounts) \in Nat /\ DOMAIN mounts = 1..Len(mounts)
        /\ \A m \in DOMAIN mounts : mounts[m] \in MountState
    BY <1>1, Domains
  <2>2. \A m \in DOMAIN mounts : mounts'[m] \in MountState
    BY <1>6, <1>7, <2>1
  <2> DEFINE f(m) == IF m \in current THEN Retired(mounts[m]) ELSE mounts[m]
  <2>3. mounts' = [m \in 1..Len(mounts) |-> f(m)]
    BY <1>2, <2>1
  <2>4. \A m \in 1..Len(mounts) : f(m) \in MountState
    BY <2>1, <2>2, <2>3
  <2> HIDE DEF f
  <2>5. mounts' \in Seq(MountState)
    BY <2>1, <2>3, <2>4
  <2>6. DOMAIN mounts' = 1..Len(mounts)
    BY <2>3
  <2>7. Len(mounts') \in Nat /\ DOMAIN mounts' = 1..Len(mounts')
    BY <2>5
  <2>8. Len(mounts') = Len(mounts)
    BY <2>1, <2>6, <2>7
  <2> QED BY <2>5, <2>8
<1>9. TypeOK'
  <2>1. closer' \in [pc : {"none", "work", "mounts", "done"}, waits : SUBSET MountIds]
    BY <1>1, <1>2, <1>5 DEF Known
  <2> QED BY Zenon, <1>1, <1>2, <1>5, <1>8, <2>1 DEF TypeOK
<1>10. Known'
  BY <1>1, <1>2, <1>4, <1>5, Zenon DEF Known
<1>11. \A g \in Procs : Place(g)'
  BY <1>4 DEF Structure
<1>12. ASSUME NEW g \in Procs, Mounting(g)' PROVE Private(g)'
  <2>1. Private(g)
    BY Zenon, <1>4, <1>12 DEF Structure
  <2>2. /\ proc[g].mount \in DOMAIN mounts' /\ mounts'[proc[g].mount] = mounts[proc[g].mount]
        /\ proc[g].mount \notin pinned' /\ proc[g].mount \notin current'
    BY Zenon, <1>2, <1>5, <1>6, <2>1 DEF Private
  <2>3. g \in Procs \ {Free}
    BY <1>3
  <2> QED BY <1>3, <2>1, <2>2, <2>3, StaysPrivate, Zenon
<1>13. ASSUME NEW m \in DOMAIN mounts' PROVE Counts(mounts'[m]) /\ Owned(m)'
  <2>1. Counts(mounts[m]) /\ Owned(m) /\ m \in DOMAIN mounts
    BY <1>5 DEF Structure
  <2>2. CASE m \in current
    BY Zenon, <1>7, <2>2 DEF Owned
  <2>3. CASE m \notin current
    <3>1. mounts'[m] = mounts[m] /\ (Gone(m) => Gone(m)')
      BY <1>2, <1>4, <1>6, <2>1, <2>3 DEF Gone
    <3>2. \A g \in Procs : Mounting(g) /\ proc[g].mount = m => Mounting(g)' /\ proc'[g].mount = m
      BY <1>2, <1>4, Zenon
    <3> QED BY <2>1, <2>3, <3>1, <3>2 DEF Owned
  <2> QED BY <2>2, <2>3
<1>14. \A g \in Procs : ~Publishing(g)'
  BY <1>2, <1>3, <1>4, Zenon DEF Structure, Place, Publishing
<1>15. Tally
  <2>1. \A g \in Procs, s \in Slots : Held(g, s)' = Held(g, s)
    BY <1>2, Zenon DEF Held
  <2>2. \A m \in DOMAIN mounts : mounts'[m].refs = mounts[m].refs
    BY Zenon, <1>6, <1>7
  <2> QED BY <1>1, <1>5, <2>1, <2>2, HeldSame, Zenon
<1>16. CompositionValid'
  BY Zenon, <1>2 DEF CompositionValid, Valid, Names
<1>17. Shutdown'
  BY <1>2 DEF Shutdown
<1> QED BY <1>9, <1>10, <1>11, <1>12, <1>13, <1>14, <1>15, <1>16, <1>17, Zenon DEF Structure, Preserved

\* What is held can be reached.
LEMMA HeldReached ==
    ASSUME NEW h, NEW s \in Slots
    PROVE  Held(h, s) \subseteq Reach(h)
BY DEF Held, Reach, Slots

\* source.Open.
LEMMA OpenSourceStep ==
    ASSUME Structure, NEW h \in Procs, NEW p \in Plugins, OpenSource(h, p)
    PROVE  Preserved
<1>1. TypeOK /\ Known /\ Place(h) /\ proc[h] = Idle /\ CompositionValid /\ Shutdown
  BY DEF Structure, OpenSource
<1>2. /\ proc[h] \in Proc /\ proc[h].pc = "idle" /\ proc[h].slot = "snap" /\ proc[h].todo = {}
      /\ proc[h].kind = "turn"
      /\ lease[h]["snap"] = NoLease /\ lease[h]["own"] = NoLease /\ mu # h
  BY <1>1, IdleRecord, Zenon DEF Place
<1>3. /\ mounts \in Seq(MountState) /\ Len(mounts) \in Nat /\ DOMAIN mounts = 1..Len(mounts)
      /\ MaxMounts \in Nat
  BY <1>1, Domains, CompositionAssumption DEF TypeOK
<1> PICK n : n = Len(mounts) + 1
  BY Zenon
<1> PICK r : r = NewMount(p)
  BY Zenon
<1>4. /\ Len(mounts) < MaxMounts /\ mounts' = Append(mounts, r)
      /\ proc' = [proc EXCEPT ![h].pc = "opened", ![h].kind = "mount", ![h].mount = n]
      /\ current' = current /\ closed' = closed /\ mu' = mu /\ lease' = lease
      /\ pinned' = pinned /\ closer' = closer
  BY Zenon DEF OpenSource
<1>5. /\ r \in MountState /\ r.refs = 0 /\ r.closes = 0 /\ ~r.retired /\ Counts(r)
  BY DEF NewMount, MountState, Counts
<1>6. /\ mounts' \in Seq(MountState) /\ Len(mounts') = n /\ mounts'[n] = r
      /\ \A m \in 1..Len(mounts) : mounts'[m] = mounts[m]
  BY <1>3, <1>4, <1>5
<1>7. DOMAIN mounts' = 1..n /\ n \in 0..MaxMounts /\ n \notin DOMAIN mounts /\ Len(mounts') <= MaxMounts
  BY <1>3, <1>4, <1>6
<1>8. /\ DOMAIN mounts' = DOMAIN mounts \cup {n}
      /\ \A m \in DOMAIN mounts : mounts'[m] = mounts[m]
  BY <1>3, <1>6, <1>7
<1> PICK q : q = [proc[h] EXCEPT !.pc = "opened", !.kind = "mount", !.mount = n]
  BY Zenon
<1>9. /\ q \in Proc /\ q.pc = "opened" /\ q.kind = "mount" /\ q.mount = n /\ q.todo = {}
      /\ q.slot = "snap"
  <2>1. "opened" \in Pcs /\ "mount" \in Kinds
    BY DEF Pcs, Kinds
  <2>2. q \in Proc
    BY <1>2, <1>7, <2>1, ProcWith, Zenon
  <2>3. /\ q.pc = "opened" /\ q.kind = "mount" /\ q.mount = n /\ q.todo = proc[h].todo
        /\ q.slot = proc[h].slot
    BY <1>2, Zenon DEF Proc
  <2> QED BY <1>2, <2>2, <2>3, Zenon
<1>10. proc' = [proc EXCEPT ![h] = q]
  BY <1>4, Zenon
<1>11. Typed /\ OthersMoveNot(h) /\ HeldStays /\ proc'[h] = q /\ lease'[h] = lease[h]
  <2>1. q.pc # "release" /\ proc[h].pc # "release" /\ lease' = lease
    BY <1>2, <1>4, <1>9
  <2> QED BY <1>1, <1>9, <1>10, <2>1, MovesOn, Zenon
<1>12. OthersStay(h)
  BY <1>4, <1>11, Zenon DEF OthersStay, OthersMoveNot
<1>13. \A g \in Procs \ {h} : /\ Reach(g)' = Reach(g) /\ Mounting(g)' = Mounting(g)
                              /\ Publishing(g)' = Publishing(g) /\ Place(g)' = Place(g)
                              /\ proc'[g] = proc[g] /\ lease'[g] = lease[g]
  BY Zenon, <1>12, Others DEF OthersStay
<1>14. Reach(h)' = {} /\ Mounting(h)' /\ ~Publishing(h)' /\ ~Mounting(h)
  BY <1>2, <1>9, <1>11 DEF Reach, Mounting, Publishing, NoLease
<1>15. TypeOK'
  <2>1. current' \subseteq DOMAIN mounts' /\ pinned' \subseteq DOMAIN mounts'
    BY <1>1, <1>4, <1>8 DEF Known
  <2> QED BY <1>1, <1>4, <1>6, <1>7, <1>11, <2>1 DEF TypeOK, Typed
<1>16. Known'
  <2>1. \A g \in Procs : Reach(g)' \subseteq DOMAIN mounts'
    BY <1>1, <1>8, <1>13, <1>14 DEF Known
  <2> QED BY <1>1, <1>4, <1>8, <2>1 DEF Known
<1>17. \A g \in Procs : Place(g)'
  <2>1. Place(h)'
    BY <1>2, <1>4, <1>9, <1>11, Zenon DEF Place
  <2> QED BY <1>13, <2>1 DEF Structure
<1>18. ASSUME NEW g \in Procs, Mounting(g)' PROVE Private(g)'
  <2>1. \A k \in Procs : Mounting(k) => Private(k) /\ proc[k].mount \in DOMAIN mounts
    BY DEF Structure, Private
  <2>2. CASE g = h
    <3>1. n \in DOMAIN mounts' /\ n \notin current' \cup pinned'
      BY <1>1, <1>4, <1>7, <1>8 DEF Known
    <3>2. ~mounts'[n].retired /\ mounts'[n].closes = 0
      BY <1>5, <1>6
    <3>3. \A k \in Procs \ {h} : n \notin Reach(k)'
      BY <1>1, <1>7, <1>13 DEF Known
    <3>4. \A k \in Procs \ {h} : Mounting(k)' => proc'[k].mount # n
      BY <1>7, <1>13, <2>1
    <3>5. proc'[g].mount = n
      BY <1>9, <1>11, <2>2, Zenon
    <3> QED BY <2>2, <3>1, <3>2, <3>3, <3>4, <3>5 DEF Private
  <2>3. CASE g # h
    <3>1. Mounting(g) /\ Private(g) /\ proc[g].mount \in DOMAIN mounts
      BY <1>13, <1>18, <2>1, <2>3
    <3>2. proc[g].mount \notin current' /\ proc[g].mount \notin pinned'
      BY <1>4, <3>1 DEF Private
    <3>3. proc[g].mount \in DOMAIN mounts' /\ mounts'[proc[g].mount] = mounts[proc[g].mount]
      BY <1>8, <3>1
    <3>4. proc[g].mount \notin Reach(h)' /\ proc'[h].mount # proc[g].mount
      BY <1>7, <1>9, <1>11, <1>14, <3>1
    <3>5. g \in Procs \ {h}
      BY <2>3
    <3> QED BY <1>12, <3>1, <3>2, <3>3, <3>4, <3>5, StaysPrivate, Zenon
  <2> QED BY <2>2, <2>3
<1>19. ASSUME NEW m \in DOMAIN mounts' PROVE Counts(mounts'[m]) /\ Owned(m)'
  <2>1. CASE m = n
    <3>1. mounts'[m] = r /\ Mounting(h)' /\ proc'[h].mount = m
      BY <1>6, <1>9, <1>11, <1>14, <2>1
    <3> QED BY <1>5, <3>1 DEF Owned
  <2>2. CASE m # n
    <3>1. Counts(mounts[m]) /\ Owned(m) /\ mounts'[m] = mounts[m]
      BY <1>8, <2>2 DEF Structure
    <3>2. Gone(m) => Gone(m)'
      BY <1>4, <1>13, <1>14 DEF Gone
    <3>3. \A g \in Procs : Mounting(g) /\ proc[g].mount = m => Mounting(g)' /\ proc'[g].mount = m
      BY <1>13, <1>14
    <3> QED BY <1>4, <3>1, <3>2, <3>3, Zenon DEF Owned
  <2> QED BY <2>1, <2>2
<1>20. PluginsKept /\ current \subseteq DOMAIN mounts
  BY <1>1, <1>8 DEF PluginsKept, Known
<1>21. ASSUME NEW g \in Procs, Publishing(g)' PROVE Planned(g)'
  <2>1. g # h /\ Publishing(g)
    BY <1>13, <1>14, <1>21
  <2>2. Planned(g) /\ proc'[g] = proc[g] /\ lease'[g] = lease[g]
    BY <1>13, <2>1 DEF Structure
  <2>3. proc[g].kind = "mount" => proc[g].mount \in DOMAIN mounts
    BY <2>1 DEF Structure, Mounting, Publishing, Private
  <2> QED BY <1>4, <1>20, <2>2, <2>3, PlanKept, Zenon
<1>22. Tally
  <2>1. \A g \in Procs, s \in Slots : n \notin Held(g, s)
    BY <1>1, <1>7, HeldReached DEF Known
  <2>2. \A m \in DOMAIN mounts' :
           \/ m \in DOMAIN mounts /\ mounts'[m].refs = mounts[m].refs
           \/ mounts'[m].refs = 0 /\ \A g \in Procs, s \in Slots : m \notin Held(g, s)
    BY <1>5, <1>6, <1>8, <2>1
  <2> QED BY <1>1, <1>11, <2>2, HeldSame DEF HeldStays
<1>23. CompositionValid'
  <2>1. {mounts'[m].plugin : m \in current} = Names(current)
    BY <1>20, NamesKept
  <2>2. Valid(Names(current))'
    BY <1>1, <1>4, <2>1, Zenon DEF CompositionValid, Valid, ResourcesOf, Names
  <2> QED BY <1>1, <1>4, <1>8, <1>20, <2>2 DEF CompositionValid
<1>24. Shutdown'
  <2>1. \A g \in Procs : proc'[g].kind \in Counted =>
           proc[g].kind \in Counted /\ proc'[g].pc = proc[g].pc
    BY <1>9, <1>11, <1>13, Zenon DEF Counted
  <2>2. \A m \in closer.waits : mounts'[m] = mounts[m]
    BY <1>1, <1>8 DEF Known
  <2> QED BY <1>1, <1>4, <2>1, <2>2, Zenon DEF Shutdown
<1> QED BY <1>15, <1>16, <1>17, <1>18, <1>19, <1>21, <1>22, <1>23, <1>24, Zenon DEF Structure, Preserved

\* closeOnError.
LEMMA DiscardStep ==
    ASSUME Structure, NEW h \in Procs, Discard(h)
    PROVE  Preserved
<1>1. TypeOK /\ Known /\ Place(h) /\ CompositionValid /\ Shutdown
      /\ proc[h].pc = "discard"
  BY Zenon DEF Structure, Discard
<1>2. /\ proc[h].kind = "mount" /\ proc[h].todo = {} /\ Mounting(h)
      /\ lease[h]["snap"] = NoLease /\ lease[h]["own"] = NoLease /\ mu # h
  BY Zenon, <1>1 DEF Place, Mounting
<1>3. Private(h)
  BY Zenon, <1>2 DEF Structure
<1> PICK n : n = proc[h].mount
  BY Zenon
<1>4. /\ n \in DOMAIN mounts /\ n \notin current /\ n \notin pinned
      /\ ~mounts[n].retired /\ mounts[n].closes = 0
      /\ \A g \in Procs \ {h} : n \notin Reach(g) /\ (Mounting(g) => proc[g].mount # n)
  BY Zenon, <1>3 DEF Private
<1>5. mounts[n] \in MountState /\ Counts(mounts[n])
  BY Zenon, <1>1, <1>4, Domains DEF Structure
<1> PICK r : r = ConnectionClosed(mounts[n])
  BY Zenon
<1>6. /\ mounts' = [mounts EXCEPT ![n] = r] /\ proc' = [proc EXCEPT ![h] = Idle]
      /\ current' = current /\ closed' = closed /\ mu' = mu /\ lease' = lease
      /\ pinned' = pinned /\ closer' = closer
  BY Zenon DEF Discard
<1>7. /\ r \in MountState /\ r.plugin = mounts[n].plugin /\ r.retired = mounts[n].retired
      /\ r.refs = mounts[n].refs /\ r.closes = 1 /\ Counts(r)
  <2>1. mounts[n].closes + 1 = 1 /\ 1 \in Nat
    BY <1>4
  <2>2. /\ r \in MountState /\ r.plugin = mounts[n].plugin /\ r.retired = mounts[n].retired
        /\ r.refs = mounts[n].refs /\ r.closes = mounts[n].closes + 1
        /\ r.closing = mounts[n].closing /\ r.closers = mounts[n].closers
    BY <1>5, <2>1, Zenon DEF ConnectionClosed, MountState
  <2>3. ~mounts[n].closing /\ mounts[n].closers = 0
    BY Zenon, <1>4, <1>5 DEF Counts
  <2>4. Counts(r)
    BY <1>4, <2>2, <2>3, Zenon DEF Counts
  <2> QED BY <2>1, <2>2, <2>4, Zenon
<1>8. /\ mounts' \in Seq(MountState) /\ Len(mounts') = Len(mounts)
      /\ DOMAIN mounts' = DOMAIN mounts /\ mounts'[n] = r
      /\ \A m \in DOMAIN mounts : m # n => mounts'[m] = mounts[m]
  BY <1>1, <1>4, <1>6, <1>7, Replaced, Zenon
<1>9. Typed /\ OthersMoveNot(h) /\ HeldStays /\ proc'[h] = Idle /\ lease'[h] = lease[h]
  <2>1. Idle.pc # "release" /\ proc[h].pc # "release" /\ lease' = lease
    BY <1>1, <1>6, IdleRecord
  <2> QED BY <1>1, <1>6, <2>1, IdleRecord, MovesOn, Zenon
<1>10. OthersStay(h)
  BY Zenon, <1>6, <1>9 DEF OthersStay, OthersMoveNot
<1>11. \A g \in Procs \ {h} : /\ Reach(g)' = Reach(g) /\ Mounting(g)' = Mounting(g)
                              /\ Publishing(g)' = Publishing(g) /\ Place(g)' = Place(g)
                              /\ proc'[g] = proc[g] /\ lease'[g] = lease[g]
  BY Zenon, <1>10, Others DEF OthersStay
<1>12. Reach(h)' = {} /\ ~Mounting(h)' /\ ~Publishing(h)'
  <2>1. proc'[h].todo = {} /\ \A s \in Slots : lease'[h][s].mounts = {}
    BY Zenon, <1>2, <1>9, IdleRecord, LeaseRecord DEF Slots
  <2>2. ~Mounting(h)' /\ ~Publishing(h)'
    BY Zenon, <1>9, IdleRecord DEF Mounting, Publishing
  <2>3. Reach(h)' = {}
    BY <2>1 DEF Reach, Slots
  <2> QED BY Zenon, <2>2, <2>3
<1>13. TypeOK'
  BY Zenon, <1>1, <1>6, <1>8, <1>9 DEF TypeOK, Typed
<1>14. Known'
  <2>1. \A g \in Procs : Reach(g)' \subseteq DOMAIN mounts'
    BY Zenon, <1>1, <1>8, <1>11, <1>12 DEF Known
  <2> QED BY Zenon, <1>1, <1>6, <1>8, <2>1 DEF Known
<1>15. \A g \in Procs : Place(g)'
  <2>1. Place(h)'
    BY <1>2, <1>6, <1>9, IdleRecord, Zenon DEF Place
  <2> QED BY <1>11, <2>1, Zenon DEF Structure
<1>16. ASSUME NEW g \in Procs, Mounting(g)' PROVE Private(g)'
  <2>1. g \in Procs \ {h}
    BY <1>12, <1>16
  <2>2. Mounting(g) /\ Private(g) /\ proc[g].mount \in DOMAIN mounts /\ proc[g].mount # n
    BY <1>4, <1>11, <1>16, <2>1, Zenon DEF Structure, Private
  <2>3. proc[g].mount \notin current' /\ proc[g].mount \notin pinned'
    BY Zenon, <1>6, <2>2 DEF Private
  <2>4. proc[g].mount \in DOMAIN mounts' /\ mounts'[proc[g].mount] = mounts[proc[g].mount]
    BY Zenon, <1>8, <2>2
  <2> QED BY <1>10, <1>12, <2>1, <2>2, <2>3, <2>4, StaysPrivate, Zenon
<1>17. ASSUME NEW m \in DOMAIN mounts' PROVE Counts(mounts'[m]) /\ Owned(m)'
  <2>1. CASE m = n
    <3>1. Gone(m)'
      BY Zenon, <1>4, <1>6, <1>11, <1>12, <2>1 DEF Gone
    <3> QED BY Zenon, <1>7, <1>8, <2>1, <3>1 DEF Owned
  <2>2. CASE m # n
    <3>1. Counts(mounts[m]) /\ Owned(m) /\ mounts'[m] = mounts[m]
      BY Zenon, <1>8, <2>2 DEF Structure
    <3>2. Gone(m) => Gone(m)'
      BY <1>6, <1>11, <1>12 DEF Gone
    <3>3. \A g \in Procs : Mounting(g) /\ proc[g].mount = m => Mounting(g)' /\ proc'[g].mount = m
      BY <1>11, <2>2, Zenon
    <3> QED BY Zenon, <1>6, <3>1, <3>2, <3>3 DEF Owned
  <2> QED BY Zenon, <2>1, <2>2
<1>18. PluginsKept /\ current \subseteq DOMAIN mounts
  BY Zenon, <1>1, <1>7, <1>8 DEF PluginsKept, Known
<1>19. ASSUME NEW g \in Procs, Publishing(g)' PROVE Planned(g)'
  <2>1. g # h /\ Publishing(g)
    BY Zenon, <1>11, <1>12, <1>19
  <2>2. Planned(g) /\ proc'[g] = proc[g] /\ lease'[g] = lease[g]
    BY <1>11, <2>1, Zenon DEF Structure
  <2>3. proc[g].kind = "mount" => proc[g].mount \in DOMAIN mounts
    BY <2>1, Zenon DEF Structure, Mounting, Publishing, Private
  <2> QED BY Zenon, <1>6, <1>18, <2>2, <2>3, PlanKept
<1>20. Tally
  <2>1. \A m \in DOMAIN mounts' : m \in DOMAIN mounts /\ mounts'[m].refs = mounts[m].refs
    BY Zenon, <1>7, <1>8
  <2> QED BY Zenon, <1>1, <1>9, <2>1, HeldSame DEF HeldStays
<1>21. CompositionValid'
  <2>1. {mounts'[m].plugin : m \in current} = Names(current)
    BY Zenon, <1>18, NamesKept
  <2>2. Valid(Names(current))'
    BY <1>1, <1>6, <2>1, Zenon DEF CompositionValid, Valid, ResourcesOf, Names
  <2>3. \A m \in current : mounts'[m] = mounts[m]
    BY Zenon, <1>4, <1>8, <1>18
  <2>4. \A k, m \in current : mounts'[k].plugin = mounts'[m].plugin => k = m
    BY Zenon, <1>1, <2>3 DEF CompositionValid
  <2>5. /\ \A m \in current : ~mounts'[m].retired
        /\ closed => current = {}
    BY Zenon, <1>1, <2>3 DEF CompositionValid
  <2> QED BY <1>6, <2>2, <2>4, <2>5, Zenon DEF CompositionValid
<1>22. Shutdown'
  <2>1. \A g \in Procs : proc'[g].kind \in Counted =>
           proc'[g].pc = "idle" \/ proc'[g] = proc[g]
    BY Zenon, <1>9, <1>11, IdleRecord
  <2>c. 1 > 0
    OBVIOUS
  <2>2. \A m \in closer.waits : mounts[m].closes > 0 => mounts'[m].closes > 0
    BY Zenon, <1>1, <1>7, <1>8, <2>c DEF Known
  <2> QED BY <1>1, <1>6, <2>1, <2>2, Zenon DEF Shutdown
<1> QED BY <1>13, <1>14, <1>15, <1>16, <1>17, <1>19, <1>20, <1>21, <1>22, Zenon DEF Structure, Preserved

\* What a goroutine with the mutex is about to publish.
LEMMA Published ==
    ASSUME Structure, NEW h \in Procs, Publish(h)
    PROVE  /\ mu = h /\ ~closed /\ closer.pc = "none" /\ Returning(h, "snap")
           /\ proc[h].kind \in {"mount", "unmount"}
           /\ mu' = Free /\ closed' = closed /\ pinned' = pinned /\ closer' = closer
           /\ proc[h].kind = "mount" =>
                 /\ Mounting(h) /\ Private(h) /\ Adds(mounts[proc[h].mount].plugin)
                 /\ current' = current \cup {proc[h].mount} /\ mounts' = mounts
           /\ proc[h].kind = "unmount" =>
                 /\ proc[h].mount \in current /\ Valid(Names(current \ {proc[h].mount}))
                 /\ current' = current \ {proc[h].mount}
                 /\ mounts' = [mounts EXCEPT ![proc[h].mount] = Retired(mounts[proc[h].mount])]
<1>1. TypeOK /\ Place(h) /\ Shutdown
  BY Zenon DEF Structure
<1>2. proc[h].pc = "acquire" /\ proc[h].todo = {} /\ proc[h].kind \in {"mount", "unmount"}
  BY DEF Publish
<1>3. Publishing(h) /\ Planned(h) /\ mu = h
  BY <1>1, <1>2, Zenon DEF Publishing, Place, Structure
<1>4. proc[h].kind = "mount" => Mounting(h) /\ Private(h)
  BY Zenon, <1>2 DEF Mounting, Structure
<1>5. Returning(h, "snap")
  <2>1. "snap" \in Slots /\ Release(h, "snap") /\ proc[h].pc # "release"
    BY Zenon, <1>2 DEF Slots, Publish
  <2> QED BY <1>1, <2>1, ReleaseBegins, Zenon
<1>6. /\ mu' = Free /\ current' = lease[h]["snap"].mounts
      /\ mounts' = IF proc[h].kind = "mount" THEN mounts
                   ELSE [mounts EXCEPT ![proc[h].mount] = Retired(mounts[proc[h].mount])]
      /\ closed' = closed /\ pinned' = pinned /\ closer' = closer
  BY Zenon DEF Publish
<1>7. ~closed /\ closer.pc = "none"
  BY Zenon, <1>1, <1>3 DEF Planned, Shutdown
<1>8. proc[h].todo \cup lease[h]["snap"].mounts = lease[h]["snap"].mounts
  BY Zenon, <1>2
<1>9. proc[h].kind = "mount" => /\ lease[h]["snap"].mounts = current \cup {proc[h].mount}
                                /\ Adds(mounts[proc[h].mount].plugin)
  BY Zenon, <1>3, <1>8 DEF Planned
<1>10. proc[h].kind = "unmount" =>
          /\ lease[h]["snap"].mounts = current \ {proc[h].mount} /\ proc[h].mount \in current
          /\ Valid(Names(current \ {proc[h].mount}))
  BY Zenon, <1>3, <1>8 DEF Planned
<1>11. proc[h].kind = "unmount" => proc[h].kind # "mount"
  OBVIOUS
<1> QED BY <1>2, <1>3, <1>4, <1>5, <1>6, <1>7, <1>9, <1>10, <1>11, Zenon

\* The mounts after a snapshot is published.
Republished(h) ==
    /\ mounts' \in Seq(MountState) /\ Len(mounts') = Len(mounts) /\ DOMAIN mounts' = DOMAIN mounts
    /\ \A m \in DOMAIN mounts :
          /\ mounts'[m].plugin = mounts[m].plugin /\ mounts'[m].refs = mounts[m].refs
          /\ Counts(mounts'[m])
          /\ m \notin current \/ m \in current' => mounts'[m] = mounts[m]
          /\ m \in current /\ m \notin current' => mounts'[m].retired

\* Publication retires the mount that leaves the composition, and no other.
LEMMA PublishMounts ==
    ASSUME Structure, NEW h \in Procs, Publish(h)
    PROVE  Republished(h)
<1>1. TypeOK /\ \A m \in DOMAIN mounts : Counts(mounts[m])
  BY Zenon DEF Structure
<1> PICK n : n = proc[h].mount
  BY Zenon
<1>2. CASE proc[h].kind = "mount"
  <2>1. mounts' = mounts /\ current' = current \cup {n}
    BY <1>2, Published, Zenon
  <2> QED BY Zenon, <1>1, <2>1 DEF Republished, TypeOK
<1>3. CASE proc[h].kind = "unmount"
  <2> PICK r : r = Retired(mounts[n])
    BY Zenon
  <2>1. n \in current /\ current' = current \ {n} /\ mounts' = [mounts EXCEPT ![n] = r]
    BY <1>3, Published, Zenon
  <2>2. /\ n \in DOMAIN mounts /\ mounts[n] \in MountState /\ Counts(mounts[n])
        /\ ~mounts[n].retired /\ mounts[n].closes = 0
    BY Zenon, <2>1, PublishedOpen
  <2>3. /\ r \in MountState /\ Counts(r) /\ r.plugin = mounts[n].plugin /\ r.retired
        /\ r.refs = mounts[n].refs
    BY Zenon, <2>2, Retiring
  <2>4. /\ mounts' \in Seq(MountState) /\ Len(mounts') = Len(mounts)
        /\ DOMAIN mounts' = DOMAIN mounts /\ mounts'[n] = r
        /\ \A m \in DOMAIN mounts : m # n => mounts'[m] = mounts[m]
    BY <1>1, <2>1, <2>2, <2>3, Replaced, Zenon
  <2>5. ASSUME NEW m \in DOMAIN mounts
        PROVE  /\ mounts'[m].plugin = mounts[m].plugin /\ mounts'[m].refs = mounts[m].refs
               /\ Counts(mounts'[m])
               /\ m \notin current \/ m \in current' => mounts'[m] = mounts[m]
               /\ m \in current /\ m \notin current' => mounts'[m].retired
    <3>1. CASE m = n
      BY Zenon, <2>1, <2>3, <2>4, <3>1
    <3>2. CASE m # n
      BY Zenon, <1>1, <2>1, <2>4, <3>2
    <3> QED BY Zenon, <3>1, <3>2
  <2> QED BY Zenon, <2>4, <2>5 DEF Republished
<1> QED BY <1>2, <1>3, Published, Zenon

\* The composition that is published is valid.
LEMMA PublishValid ==
    ASSUME Structure, NEW h \in Procs, Publish(h)
    PROVE  CompositionValid'
<1>1. CompositionValid /\ Known /\ Republished(h) /\ ~closed' /\ current \subseteq DOMAIN mounts
  BY Published, PublishMounts, Zenon DEF Structure, Known
<1>2. PluginsKept
  BY <1>1, Zenon DEF Republished, PluginsKept
<1> PICK n : n = proc[h].mount
  BY Zenon
<1>3. CASE proc[h].kind = "mount"
  <2>1. /\ Private(h) /\ Adds(mounts[n].plugin) /\ current' = current \cup {n}
        /\ mounts' = mounts
    BY <1>3, Published, Zenon
  <2>2. Names(current \cup {n}) = Names(current) \cup {mounts[n].plugin}
    BY Zenon DEF Names
  <2>3. Valid(Names(current \cup {n})) /\ mounts[n].plugin \notin Names(current)
    BY <2>1, <2>2, Zenon DEF Adds
  <2>4. Valid(Names(current))'
    BY SMT, SMTT(30), <2>1, <2>3 DEF Valid, Names, ResourcesOf
  <2>5. \A m \in current : mounts[m].plugin # mounts[n].plugin
    BY Zenon, <2>3 DEF Names
  <2>6. \A m, k \in current \cup {n} : mounts[m].plugin = mounts[k].plugin => m = k
    BY Zenon, <1>1, <2>5 DEF CompositionValid
  <2>7. \A m \in current \cup {n} : ~mounts[m].retired
    BY Zenon, <1>1, <2>1 DEF CompositionValid, Private
  <2> QED BY Zenon, <1>1, <2>1, <2>4, <2>6, <2>7 DEF CompositionValid
<1>4. CASE proc[h].kind = "unmount"
  <2>1. current' = current \ {n} /\ Valid(Names(current \ {n}))
    BY <1>4, Published, Zenon
  <2>2. {mounts'[m].plugin : m \in current \ {n}} = Names(current \ {n})
    BY Zenon, <1>1, <1>2, NamesKept
  <2>3. Valid(Names(current))'
    BY <2>1, <2>2, Zenon DEF Valid, Names, ResourcesOf
  <2>4. \A m \in current \ {n} : mounts'[m] = mounts[m]
    BY Zenon, <1>1, <2>1 DEF Republished
  <2> QED BY SMT, SMTT(30), <1>1, <2>1, <2>3, <2>4 DEF CompositionValid
<1> QED BY <1>3, <1>4, Published, Zenon

\* Mount and Unmount publish.
LEMMA PublishStep ==
    ASSUME Structure, NEW h \in Procs, Publish(h)
    PROVE  Preserved
<1>1. TypeOK /\ Known /\ Place(h) /\ Shutdown
  BY DEF Structure
<1> PICK n : n = proc[h].mount
  BY Zenon
<1>2. /\ mu = h /\ ~closed /\ closer.pc = "none" /\ Returning(h, "snap")
      /\ proc[h].kind \in {"mount", "unmount"}
      /\ mu' = Free /\ closed' = closed /\ pinned' = pinned /\ closer' = closer
  BY Published, Zenon
<1>3. /\ proc[h].kind = "mount" => Mounting(h) /\ Private(h) /\ current' = current \cup {n}
      /\ proc[h].kind = "unmount" => n \in current /\ current' = current \ {n} /\ ~Mounting(h)
  BY Published, Zenon DEF Mounting
<1>4. Republished(h) /\ DOMAIN mounts' = DOMAIN mounts
  BY Zenon, PublishMounts DEF Republished
<1>5. /\ Typed /\ OthersMoveNot(h) /\ HeldStays /\ proc'[h].pc = "release"
      /\ proc'[h].kind = proc[h].kind /\ proc'[h].slot = "snap"
      /\ lease'[h]["snap"].released /\ lease'[h]["snap"].mounts = lease[h]["snap"].mounts
      /\ proc'[h].todo \subseteq lease[h]["snap"].mounts
      /\ \A s \in Slots \ {"snap"} : lease'[h][s] = lease[h][s]
  BY <1>2, Zenon DEF Returning
<1>6. lease'[h]["own"] = lease[h]["own"] /\ lease[h]["own"] = NoLease
  BY Zenon, <1>1, <1>2, <1>5 DEF Slots, Place
<1>7. OthersStay(h) /\ mu' # h
  BY <1>2, <1>5, CompositionAssumption, Zenon DEF OthersStay, OthersMoveNot
<1>8. \A g \in Procs \ {h} : /\ Reach(g)' = Reach(g) /\ Mounting(g)' = Mounting(g)
                             /\ Publishing(g)' = Publishing(g) /\ Place(g)' = Place(g)
                             /\ proc'[g] = proc[g]
  BY Zenon, <1>7, Others DEF OthersStay
<1>9. Reach(h)' \subseteq Reach(h)
  BY Zenon, <1>5, <1>6 DEF Reach
<1>10. ~Mounting(h)' /\ ~Publishing(h)'
  BY Zenon, <1>5, <1>7 DEF Mounting, Publishing
<1>11. current' \subseteq DOMAIN mounts
  BY Zenon, <1>1, <1>2, <1>3 DEF Known, Private
<1>12. TypeOK'
  <2>1. mounts' \in Seq(MountState) /\ Len(mounts') <= MaxMounts
    BY Zenon, <1>1, <1>4 DEF TypeOK, Republished
  <2>2. mu' \in Procs \cup {Free} /\ closed' \in BOOLEAN /\ pinned' \subseteq DOMAIN mounts'
        /\ closer' \in [pc : {"none", "work", "mounts", "done"}, waits : SUBSET MountIds]
    BY <1>1, <1>2, <1>4, Zenon DEF TypeOK
  <2> QED BY <1>4, <1>5, <1>11, <2>1, <2>2, Zenon DEF TypeOK, Typed
<1>13. Known'
  <2>1. \A g \in Procs : Reach(g)' \subseteq DOMAIN mounts'
    BY Zenon, <1>1, <1>4, <1>8, <1>9 DEF Known
  <2> QED BY <1>1, <1>2, <1>4, <1>11, <2>1, Zenon DEF Known
<1>14. \A g \in Procs : Place(g)'
  <2>1. Place(h)'
    BY <1>5, <1>6, <1>7, Zenon DEF Place
  <2> QED BY Zenon, <1>8, <2>1 DEF Structure
<1>15. ASSUME NEW g \in Procs, Mounting(g)' PROVE Private(g)'
  <2>1. g \in Procs \ {h}
    BY Zenon, <1>10, <1>15
  <2>2. Mounting(g) /\ Private(g)
    BY Zenon, <1>8, <1>15, <2>1 DEF Structure
  <2>3. proc[g].mount \in DOMAIN mounts /\ proc[g].mount \notin current \cup pinned
        /\ proc[g].mount \notin Reach(h)
    BY Zenon, <2>1, <2>2 DEF Private
  <2>4. proc[h].kind = "mount" => proc[g].mount # n
    BY Zenon, <1>3, <2>1, <2>2 DEF Private
  <2>5. proc[g].mount \notin current' /\ proc[g].mount \notin pinned'
    BY Zenon, <1>2, <1>3, <2>3, <2>4
  <2>6. proc[g].mount \in DOMAIN mounts' /\ mounts'[proc[g].mount] = mounts[proc[g].mount]
    BY <1>4, <2>3 DEF Republished
  <2>7. proc[g].mount \notin Reach(h)'
    BY <1>9, <2>3
  <2> QED BY <1>7, <1>10, <2>1, <2>2, <2>5, <2>6, <2>7, StaysPrivate, Zenon
<1>16. ASSUME NEW m \in DOMAIN mounts' PROVE Counts(mounts'[m]) /\ Owned(m)'
  <2>1. Counts(mounts'[m]) /\ Owned(m) /\ m \in DOMAIN mounts
    BY Zenon, <1>4 DEF Structure, Republished
  <2>2. CASE m \in current
    <3>1. CASE m \in current'
      <4>1. mounts[m].closes = 0 /\ mounts'[m] = mounts[m]
        BY Zenon, <1>4, <2>1, <2>2, <3>1, PublishedOpen DEF Republished
      <4> QED BY Zenon, <2>1, <3>1, <4>1 DEF Owned
    <3>2. CASE m \notin current'
      BY Zenon, <1>4, <2>1, <2>2, <3>2 DEF Republished, Owned
    <3> QED BY Zenon, <3>1, <3>2
  <2>3. CASE m \notin current
    <3>1. mounts'[m] = mounts[m]
      BY Zenon, <1>4, <2>1, <2>3 DEF Republished
    <3>2. CASE mounts[m].retired
      BY <2>1, <3>1, <3>2, Zenon DEF Owned
    <3>3. ASSUME NEW g \in Procs, Mounting(g), proc[g].mount = m, mounts[m].closes = 0
          PROVE  Owned(m)'
      <4>1. CASE g = h
        <5>1. proc[h].kind = "mount" /\ m \in current'
          BY Zenon, <1>3, <3>3, <4>1 DEF Mounting
        <5> QED BY Zenon, <3>1, <3>3, <5>1 DEF Owned
      <4>2. CASE g # h
        <5>1. Mounting(g)' /\ proc'[g].mount = m
          BY Zenon, <1>8, <3>3, <4>2
        <5> QED BY Zenon, <3>1, <3>3, <5>1 DEF Owned
      <4> QED BY Zenon, <4>1, <4>2
    <3>4. CASE ~mounts[m].retired /\ mounts[m].closes = 1 /\ Gone(m)
      <4>c. 0 # 1
        OBVIOUS
      <4>1. proc[h].kind = "mount" => m # n
        BY Zenon, <1>3, <3>4, <4>c DEF Private
      <4>2. m \notin current' /\ m \notin pinned'
        BY Zenon, <1>2, <1>3, <3>4, <4>1 DEF Gone
      <4>3. \A g \in Procs : m \notin Reach(g)'
        BY Zenon, <1>8, <1>9, <3>4 DEF Gone
      <4>4. Gone(m)'
        BY Zenon, <4>2, <4>3 DEF Gone
      <4> QED BY Zenon, <2>1, <3>1, <3>4, <4>4 DEF Owned
    <3> QED BY <2>1, <2>3, <3>2, <3>3, <3>4, Zenon DEF Owned
  <2> QED BY Zenon, <2>1, <2>2, <2>3
<1>17. \A g \in Procs : ~Publishing(g)'
  <2>1. \A g \in Procs \ {h} : ~Publishing(g)
    BY <1>2, Zenon DEF Structure, Place, Publishing
  <2> QED BY Zenon, <1>8, <1>10, <2>1
<1>18. Tally
  <2>1. \A m \in DOMAIN mounts' : m \in DOMAIN mounts /\ mounts'[m].refs = mounts[m].refs
    BY <1>4 DEF Republished
  <2> QED BY <1>1, <1>5, <2>1, HeldSame, Zenon DEF HeldStays
<1>19. CompositionValid'
  BY Zenon, PublishValid
<1>20. Shutdown'
  BY Zenon, <1>2 DEF Shutdown
<1> QED BY <1>12, <1>13, <1>14, <1>15, <1>16, <1>17, <1>18, <1>19, <1>20, Zenon DEF Structure, Preserved

\* The structure holds initially.
LEMMA InitStructure == Init => Structure
<1> SUFFICES ASSUME Init PROVE Structure
  BY Zenon
<1>1. /\ mounts = <<>> /\ current = {} /\ closed = FALSE /\ mu = Free /\ pinned = {}
      /\ closer = [pc |-> "none", waits |-> {}]
  BY DEF Init
<1>2. \A h \in Procs : proc[h] = Idle /\ lease[h]["snap"] = NoLease /\ lease[h]["own"] = NoLease
  BY DEF Init, Slots
<1>3. DOMAIN mounts = {} /\ mounts \in Seq(MountState) /\ Len(mounts) = 0
  BY <1>1
<1>4. TypeOK
  <2>1. proc \in [Procs -> Proc]
    BY Zenon, IdleRecord DEF Init
  <2>2. NoLease \in Lease
    BY DEF NoLease, Lease
  <2>3. lease \in [Procs -> [Slots -> Lease]]
    BY Zenon, <2>2 DEF Init
  <2>4. closer \in [pc : {"none", "work", "mounts", "done"}, waits : SUBSET MountIds]
    BY <1>1
  <2>5. 0 <= MaxMounts
    BY CompositionAssumption
  <2> QED BY <1>1, <1>3, <2>1, <2>3, <2>4, <2>5, Zenon DEF TypeOK
<1>5. \A h \in Procs : Reach(h) = {}
  BY SMT, SMTT(30), <1>2, IdleRecord DEF Reach, NoLease
<1>6. Known
  BY Zenon, <1>1, <1>5 DEF Known
<1>7. \A h \in Procs : Place(h)
  BY Zenon, <1>1, <1>2, IdleRecord, CompositionAssumption DEF Place
<1>8. \A h \in Procs : ~Mounting(h) /\ ~Publishing(h)
  BY Zenon, <1>2, IdleRecord DEF Mounting, Publishing
<1>9. CompositionValid /\ Shutdown
  BY Zenon, <1>1 DEF CompositionValid, Valid, Names, Shutdown
<1> QED BY <1>3, <1>4, <1>6, <1>7, <1>8, <1>9, Zenon DEF Structure

\* A stuttering step keeps it.
LEMMA StutterStep ==
    ASSUME Structure, UNCHANGED vars
    PROVE  Preserved
<1>1. UNCHANGED <<mounts, current, closed, mu, proc, lease, pinned>> /\ closer' = closer
  BY DEF vars
<1>2. Shutdown'
  BY <1>1, Zenon DEF Structure, Shutdown
<1> QED BY Zenon, <1>1, <1>2, CloserStep DEF Structure, TypeOK


-----------------------------------------------------------------------------
(***************************************************************************)
(* Counting.                                                               *)
(***************************************************************************)

\* The theorems about finite sets, under a name of their own.
Finite == INSTANCE FiniteSetTheorems

\* They are about the same sets and numbers.
LEMMA SameCounts ==
    ASSUME NEW S
    PROVE  /\ IsFiniteSet(S) <=> Finite!IsFiniteSet(S)
           /\ Cardinality(S) = Finite!Cardinality(S)
BY Zenon DEF IsFiniteSet, Finite!IsFiniteSet, Cardinality, Finite!Cardinality

\* Nothing counts as zero, and only that.
LEMMA CountNone ==
    /\ Cardinality({}) = 0
    /\ \A S : IsFiniteSet(S) => Cardinality(S) \in Nat /\ (Cardinality(S) = 0 <=> S = {})
BY Zenon, SameCounts, Finite!FS_EmptySet, Finite!FS_CardinalityType

\* One more, and one less.
LEMMA CountOne ==
    ASSUME NEW S, NEW x, IsFiniteSet(S)
    PROVE  /\ IsFiniteSet(S \cup {x})
           /\ x \notin S => Cardinality(S \cup {x}) = Cardinality(S) + 1
           /\ x \in S => Cardinality(S \ {x}) = Cardinality(S) - 1
BY SMT, SMTT(30), SameCounts, Finite!FS_AddElement, Finite!FS_RemoveElement

\* A part of a product of finite sets is finite.
LEMMA FinitePart ==
    ASSUME NEW S, NEW T, IsFiniteSet(S), IsFiniteSet(T), NEW U \in SUBSET (S \X T)
    PROVE  IsFiniteSet(U)
<1>1. IsFiniteSet(S \X T)
  BY SameCounts, Finite!FS_Product
<1> QED BY Zenon, <1>1, SameCounts, Finite!FS_Subset

\* The leases that reference mount m.
Holders(m) == {x \in Procs \X Slots : m \in Held(x[1], x[2])}

\* A mount has finitely many holders.
LEMMA FiniteHolders ==
    ASSUME NEW m
    PROVE  /\ IsFiniteSet(Holders(m)) /\ Cardinality(Holders(m)) \in Nat
           /\ \A h \in Procs, s \in Slots : m \in Held(h, s) => Cardinality(Holders(m)) > 0
<1>1. IsFiniteSet({})
  BY SameCounts, Finite!FS_EmptySet
<1>2. IsFiniteSet(({} \cup {"snap"}) \cup {"own"})
  BY Zenon, <1>1, CountOne
<1>3. Slots = ({} \cup {"snap"}) \cup {"own"}
  BY DEF Slots
<1>4. Holders(m) \in SUBSET (Procs \X Slots)
  BY Zenon DEF Holders
<1>5. IsFiniteSet(Holders(m))
  BY <1>2, <1>3, <1>4, FinitePart, CompositionAssumption
<1>6. Cardinality(Holders(m)) \in Nat
  BY <1>5, CountNone
<1>7. ASSUME NEW h \in Procs, NEW s \in Slots, m \in Held(h, s)
      PROVE  Cardinality(Holders(m)) > 0
  <2>1. <<h, s>> \in Holders(m)
    BY <1>7 DEF Holders
  <2>2. Cardinality(Holders(m)) # 0
    BY Zenon, <1>5, <2>1, CountNone
  <2> QED BY <1>6, <2>2
<1> QED BY Zenon, <1>5, <1>6, <1>7

\* The counts stay exact when nothing changes hands...
LEMMA KeptRefs ==
    ASSUME RefsExact, Kept
    PROVE  RefsExact'
<1> SUFFICES ASSUME NEW m \in DOMAIN mounts'
             PROVE  mounts'[m].refs = Cardinality(Holders(m)')
  BY Zenon DEF RefsExact, Holders
<1>1. Holders(m)' = Holders(m)
  BY Zenon DEF Holders, Kept
<1>2. CASE m \in DOMAIN mounts /\ mounts'[m].refs = mounts[m].refs
  BY Zenon, <1>1, <1>2 DEF RefsExact, Holders
<1>3. CASE mounts'[m].refs = 0 /\ \A g \in Procs, s \in Slots : m \notin Held(g, s)
  <2>1. Holders(m) = {}
    BY Zenon, <1>3 DEF Holders
  <2> QED BY Zenon, <1>1, <1>3, <2>1, CountNone
<1> QED BY Zenon, <1>2, <1>3 DEF Kept

\* ... when a goroutine takes a reference...
LEMMA TakenRefs ==
    ASSUME RefsExact, NEW h \in Procs, NEW t \in Slots, NEW n \in DOMAIN mounts, Taken(h, t, n)
    PROVE  RefsExact'
<1>1. /\ n \notin Held(h, t) /\ Held(h, t)' = Held(h, t) \cup {n}
      /\ mounts'[n].refs = mounts[n].refs + 1
  BY Zenon DEF Taken
<1>2. /\ \A g \in Procs, s \in Slots : g # h \/ s # t => Held(g, s)' = Held(g, s)
      /\ DOMAIN mounts' = DOMAIN mounts
      /\ \A m \in DOMAIN mounts : m # n => mounts'[m].refs = mounts[m].refs
  BY Zenon DEF Taken, OneMoves
<1> SUFFICES ASSUME NEW m \in DOMAIN mounts
             PROVE  mounts'[m].refs = Cardinality(Holders(m)')
  BY Zenon, <1>2 DEF RefsExact, Holders
<1>3. mounts[m].refs = Cardinality(Holders(m))
  BY Zenon DEF RefsExact, Holders
<1>4. CASE m = n
  <2>1. Holders(m)' = Holders(m) \cup {<<h, t>>}
    <3>1. ASSUME NEW x \in Procs \X Slots
          PROVE  m \in Held(x[1], x[2])' <=> m \in Held(x[1], x[2]) \/ x = <<h, t>>
      <4>1. x[1] \in Procs /\ x[2] \in Slots /\ x = <<x[1], x[2]>>
        OBVIOUS
      <4>2. CASE x[1] = h /\ x[2] = t
        BY Zenon, <1>1, <1>4, <4>1, <4>2
      <4>3. CASE x[1] # h \/ x[2] # t
        BY SMT, SMTT(30), <1>2, <4>1, <4>3
      <4> QED BY <4>2, <4>3
    <3>2. <<h, t>> \in Procs \X Slots
      BY Zenon
    <3> QED BY Zenon, <3>1, <3>2 DEF Holders
  <2>2. <<h, t>> \notin Holders(m)
    BY <1>1, <1>4 DEF Holders
  <2>3. IsFiniteSet(Holders(m))
    BY FiniteHolders
  <2>4. Cardinality(Holders(m) \cup {<<h, t>>}) = Cardinality(Holders(m)) + 1
    BY Zenon, <2>2, <2>3, CountOne
  <2> QED BY Zenon, <1>1, <1>3, <1>4, <2>1, <2>4
<1>5. CASE m # n
  <2>1. \A g \in Procs, s \in Slots : m \in Held(g, s)' <=> m \in Held(g, s)
    BY Zenon, <1>1, <1>2, <1>5
  <2>2. Holders(m)' = Holders(m)
    BY Zenon, <2>1 DEF Holders
  <2> QED BY Zenon, <1>2, <1>3, <1>5, <2>2
<1> QED BY Zenon, <1>4, <1>5

\* ... and when it gives one back.
LEMMA GivenRefs ==
    ASSUME RefsExact, NEW h \in Procs, NEW t \in Slots, NEW n \in DOMAIN mounts, GivenBack(h, t, n)
    PROVE  RefsExact'
<1>1. /\ n \in Held(h, t) /\ Held(h, t)' = Held(h, t) \ {n}
      /\ mounts'[n].refs = mounts[n].refs - 1
  BY Zenon DEF GivenBack
<1>2. /\ \A g \in Procs, s \in Slots : g # h \/ s # t => Held(g, s)' = Held(g, s)
      /\ DOMAIN mounts' = DOMAIN mounts
      /\ \A m \in DOMAIN mounts : m # n => mounts'[m].refs = mounts[m].refs
  BY Zenon DEF GivenBack, OneMoves
<1> SUFFICES ASSUME NEW m \in DOMAIN mounts
             PROVE  mounts'[m].refs = Cardinality(Holders(m)')
  BY <1>2 DEF RefsExact, Holders
<1>3. mounts[m].refs = Cardinality(Holders(m))
  BY DEF RefsExact, Holders
<1>4. CASE m = n
  <2>1. Holders(m)' = Holders(m) \ {<<h, t>>}
    <3>1. ASSUME NEW x \in Procs \X Slots
          PROVE  m \in Held(x[1], x[2])' <=> m \in Held(x[1], x[2]) /\ x # <<h, t>>
      <4>1. x[1] \in Procs /\ x[2] \in Slots /\ x = <<x[1], x[2]>>
        OBVIOUS
      <4>2. CASE x[1] = h /\ x[2] = t
        BY Zenon, <1>1, <1>4, <4>1, <4>2
      <4>3. CASE x[1] # h \/ x[2] # t
        <5>1. x # <<h, t>>
          BY <4>3
        <5> QED BY Zenon, <1>2, <4>1, <4>3, <5>1
      <4> QED BY Zenon, <4>2, <4>3
    <3> QED BY <3>1 DEF Holders
  <2>2. <<h, t>> \in Holders(m)
    BY Zenon, <1>1, <1>4 DEF Holders
  <2>3. IsFiniteSet(Holders(m))
    BY FiniteHolders
  <2>4. Cardinality(Holders(m) \ {<<h, t>>}) = Cardinality(Holders(m)) - 1
    BY Zenon, <2>2, <2>3, CountOne
  <2> QED BY Zenon, <1>1, <1>3, <1>4, <2>1, <2>4
<1>5. CASE m # n
  <2>1. \A g \in Procs, s \in Slots : m \in Held(g, s)' <=> m \in Held(g, s)
    BY Zenon, <1>1, <1>2, <1>5
  <2>2. Holders(m)' = Holders(m)
    BY <2>1 DEF Holders
  <2> QED BY ZenonT(60), <1>2, <1>3, <1>5, <2>2
<1> QED BY Zenon, <1>4, <1>5

\* What is held is counted.
LEMMA HeldCounts ==
    ASSUME RefsExact, NEW m \in DOMAIN mounts, NEW h \in Procs, NEW s \in Slots, m \in Held(h, s)
    PROVE  mounts[m].refs > 0
BY Zenon, FiniteHolders DEF RefsExact, Holders

-----------------------------------------------------------------------------
(***************************************************************************)
(* The inductive invariant.                                                *)
(***************************************************************************)

\* The structure, and exact references: acquire and release rely on each.
Invariant == Structure /\ RefsExact

\* Every step keeps the structure and moves references one at a time...
LEMMA NextPreserved ==
    ASSUME Structure, HeldCounted, [Next]_vars
    PROVE  Preserved
<1>1. ASSUME NEW h \in Procs, Step(h)
      PROVE  Preserved
  <2>1. CASE \E kind \in Kinds : Begin(h, kind)
    BY <2>1, BeginStep
  <2>2. CASE AcquireSnapshot(h)
    BY <2>2, SnapshotStep
  <2>3. CASE AcquirePart(h)
    BY Zenon, <2>3, PartStep
  <2>4. CASE AcquireMount(h)
    BY <2>4, AcquireMountStep
  <2>5. CASE Acquired(h)
    BY <2>5, AcquiredStep
  <2>6. CASE ReleaseMount(h)
    BY Zenon, <2>6, ReleaseMountStep
  <2>7. CASE ReleaseDone(h)
    BY <2>7, ReleaseDoneStep
  <2>8. CASE WorkDone(h)
    BY <2>8, WorkStep
  <2>9. CASE DeferredRelease(h)
    BY <2>9, DeferredStep
  <2>10. CASE \E p \in Plugins : OpenSource(h, p)
    BY Zenon, <2>10, OpenSourceStep
  <2>11. CASE Mount(h)
    BY <2>11, MountStep
  <2>12. CASE Discard(h)
    BY <2>12, DiscardStep
  <2>13. CASE \E m \in current : Unmount(h, m)
    BY Zenon, <2>13, UnmountStep
  <2>14. CASE Publish(h)
    BY <2>14, PublishStep
  <2> QED BY <1>1, <2>1, <2>2, <2>3, <2>4, <2>5, <2>6, <2>7, <2>8, <2>9, <2>10, <2>11,
             <2>12, <2>13, <2>14 DEF Step
<1>2. CASE \E m \in DOMAIN mounts : CloseConnection(m)
  BY <1>2, CloseConnectionStep
<1>3. CASE RequestClose
  BY <1>3, RequestCloseStep
<1>4. CASE FinishWork
  BY Zenon, <1>4, FinishWorkStep
<1>5. CASE FinishMounts
  BY <1>5, FinishMountsStep
<1>6. CASE UNCHANGED vars
  BY <1>6, StutterStep
<1> QED BY <1>1, <1>2, <1>3, <1>4, <1>5, <1>6 DEF Next

\* ... and so the whole invariant.
LEMMA NextInvariant ==
    ASSUME Invariant, [Next]_vars
    PROVE  Invariant'
<1>1. Structure /\ RefsExact /\ HeldCounted
  <2>1. ASSUME NEW h \in Procs, NEW s \in Slots, NEW m \in Held(h, s)
        PROVE  mounts[m].refs > 0
    <3>1. m \in DOMAIN mounts
      BY Zenon, HeldReached DEF Invariant, Structure, Known
    <3> QED BY Zenon, <3>1, HeldCounts DEF Invariant
  <2> QED BY Zenon, <2>1 DEF Invariant, HeldCounted
<1>2. Structure' /\ Tally
  BY <1>1, NextPreserved, Zenon DEF Preserved
<1>3. RefsExact'
  BY <1>1, <1>2, KeptRefs, TakenRefs, GivenRefs, Zenon DEF Tally
<1> QED BY <1>2, <1>3 DEF Invariant

\* Initially there is no mount.
LEMMA InitInvariant == Init => Invariant
<1>1. Init => RefsExact
  <2>1. Init => DOMAIN mounts = {}
    BY DEF Init
  <2> QED BY <2>1 DEF RefsExact
<1> QED BY <1>1, InitStructure DEF Invariant

\* The invariant holds in every behaviour.
LEMMA Invariance == Spec => []Invariant
<1>1. Init => Invariant
  BY InitInvariant
<1>2. Invariant /\ [Next]_vars => Invariant'
  BY Zenon, NextInvariant
<1> QED BY <1>1, <1>2, PTL DEF Spec

-----------------------------------------------------------------------------
(***************************************************************************)
(* What follows from it.                                                   *)
(***************************************************************************)

\* What is held is open.
LEMMA HeldOpen ==
    ASSUME Invariant
    PROVE  NoUseAfterClose
<1> SUFFICES ASSUME NEW h \in Procs, NEW s \in Slots, NEW m \in Held(h, s)
             PROVE  ~mounts[m].closing /\ mounts[m].closes = 0
  BY Zenon DEF NoUseAfterClose
<1>1. m \in Reach(h) /\ m \in DOMAIN mounts
  BY Zenon, HeldReached DEF Invariant, Structure, Known
<1>2. mounts[m].refs > 0
  BY Zenon, <1>1, HeldCounts DEF Invariant
<1>3. Counts(mounts[m]) /\ Owned(m) /\ mounts[m] \in MountState
  BY Zenon, <1>1, Domains DEF Invariant, Structure
<1>4. ~mounts[m].closing /\ (mounts[m].retired => mounts[m].closes = 0)
  <2>1. mounts[m].refs # 0
    BY SMT, SMTT(30), <1>2
  <2> QED BY Zenon, <1>3, <2>1 DEF Counts
<1>5. ~mounts[m].retired => mounts[m].closes = 0
  BY Zenon, <1>1, <1>3 DEF Owned, Gone
<1>6. mounts[m].retired \in BOOLEAN
  BY Zenon, <1>3 DEF MountState
<1> QED BY Zenon, <1>4, <1>5, <1>6

\* The storage is closed last.
LEMMA WorkIsOver ==
    ASSUME Invariant
    PROVE  StorageOutlivesWork
<1>1. Shutdown /\ NoUseAfterClose
  BY Zenon, HeldOpen DEF Invariant, Structure
<1> SUFFICES ASSUME closer.pc = "done"
             PROVE  /\ \A h \in Procs : proc[h].kind \in Counted => proc[h].pc = "idle"
                    /\ \A h \in Procs, s \in Slots : Held(h, s) \cap closer.waits = {}
  BY Zenon DEF StorageOutlivesWork
<1>2. \A h \in Procs : proc[h].kind \in Counted => proc[h].pc = "idle"
  BY Zenon, <1>1 DEF Shutdown
<1>3. ASSUME NEW h \in Procs, NEW s \in Slots, NEW m \in Held(h, s), m \in closer.waits
      PROVE  FALSE
  BY SMT, SMTT(30), <1>1, <1>3 DEF Shutdown, NoUseAfterClose
<1> QED BY Zenon, <1>2, <1>3

\* A quiet closed runtime has closed everything.
LEMMA AllClosed ==
    ASSUME Invariant
    PROVE  NothingLeaks
<1> SUFFICES ASSUME closed, \A h \in Procs : proc[h].pc = "idle", NEW m \in DOMAIN mounts
             PROVE  mounts[m].closers + mounts[m].closes = 1
  BY Zenon DEF NothingLeaks
<1>1. /\ current = {} /\ Counts(mounts[m]) /\ Owned(m) /\ mounts[m] \in MountState /\ RefsExact
  BY Zenon, Domains DEF Invariant, Structure, CompositionValid
<1>2. \A h \in Procs, s \in Slots : Held(h, s) = {}
  <2>1. ASSUME NEW h \in Procs, NEW s \in Slots PROVE Held(h, s) = {}
    <3>1. lease[h]["snap"] = NoLease /\ lease[h]["own"] = NoLease /\ proc[h].pc # "release"
      BY Zenon DEF Invariant, Structure, Place
    <3>2. lease[h][s].released
      BY SMT, SMTT(30), <3>1 DEF Slots, NoLease
    <3> QED BY Zenon, <3>1, <3>2 DEF Held
  <2> QED BY Zenon, <2>1
<1>3. mounts[m].refs = 0
  <2>1. Holders(m) = {}
    BY Zenon, <1>2 DEF Holders
  <2>2. mounts[m].refs = Cardinality(Holders(m))
    BY Zenon, <1>1 DEF RefsExact, Holders
  <2> QED BY Zenon, <2>1, <2>2, CountNone
<1>4. CASE mounts[m].retired
  BY SMT, SMTT(30), <1>1, <1>3, <1>4 DEF Counts
<1>5. CASE ~mounts[m].retired
  <2>1. \A h \in Procs : ~Mounting(h)
    BY Zenon DEF Mounting
  <2>2. mounts[m].closes = 1
    BY Zenon, <1>1, <1>5, <2>1 DEF Owned
  <2>3. mounts[m].closers = 0
    BY Zenon, <1>1, <1>5 DEF Counts
  <2> QED BY <2>2, <2>3
<1> QED BY Zenon, <1>4, <1>5

\* Every variable keeps its type.
THEOREM CompositionTypes == Spec => []TypeOK
<1>1. Invariant => TypeOK
  BY Zenon DEF Invariant, Structure
<1> QED BY <1>1, Invariance, PTL

\* The references a mount counts are the leases that are held on it, whatever
\* goroutines acquire, fail to acquire, and release twice.
THEOREM References == Spec => []RefsExact
<1>1. Invariant => RefsExact
  BY DEF Invariant
<1> QED BY <1>1, Invariance, PTL

\* A connection is not closed while a lease references its mount: acquire
\* refuses a closing mount, and closing starts at the last release.
THEOREM LeasesHold == Spec => []NoUseAfterClose
<1>1. Invariant => NoUseAfterClose
  BY Zenon, HeldOpen
<1> QED BY <1>1, Invariance, PTL

\* Mount, Unmount and Close publish valid compositions only: what was checked
\* under the mutex still holds when the snapshot is published.
THEOREM Compositions == Spec => []CompositionValid
<1>1. Invariant => CompositionValid
  BY Zenon DEF Invariant, Structure
<1> QED BY <1>1, Invariance, PTL

\* finishClose closes the storage after the last turn and the last lease.
THEOREM StorageLast == Spec => []StorageOutlivesWork
<1>1. Invariant => StorageOutlivesWork
  BY WorkIsOver
<1> QED BY <1>1, Invariance, PTL

\* Once a closed runtime is quiet, each connection it opened has been handed to
\* Close exactly once, by closeOnError or by startCloseLocked.
THEOREM NoLeaks == Spec => []NothingLeaks
<1>1. Invariant => NothingLeaks
  BY AllClosed
<1> QED BY <1>1, Invariance, PTL
=============================================================================
