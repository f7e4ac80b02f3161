------------------------- MODULE VisionPolicy_proofs -------------------------
(***************************************************************************)
(* Proofs about VisionPolicy, for any screens, places and sizes, any number *)
(* of hits and of frames, any delays, and both ways of arming a target     *)
(* again.  Every frame takes the track through a few functions (Begin,     *)
(* Finish, Hit or Miss, Finish); the lemmas say what each of them keeps of *)
(*   Once    the actions from the one that was done on, against the frames *)
(*           the target was gone                                           *)
(*   Known   the place and the hits, against the matches in a row          *)
(***************************************************************************)
EXTENDS VisionPolicy, TLAPS

\* The types of a track and of the matches in a row.
Tracks == [size : Sizes \cup {None}, place : Places \cup {None},
           hits : 0..StableHits, roi : Places \cup {None}, armed : BOOLEAN,
           absent : 0..DisappearFrames - 1, pending : BOOLEAN,
           due : 0..Delay, wait : 0..Cooldown]

Streaks == [match : Matches \cup {None}, n : 0..StableHits]

\* A click that is pending is that of an armed target; once clicked, a target is
\* not armed, and it counts no more frames without a match than it was gone for.
Once(tr, c, g) ==
    /\ tr.pending => tr.armed
    /\ tr.armed => tr.absent = 0 /\ c = 0
    /\ ~tr.armed => tr.absent <= g
    /\ c \in {0, 1}

\* A place that restricts the search was learned on this size of screen; before
\* that, the hits are matches in a row.
Known(tr, s, places, run) ==
    /\ tr.roi # None => <<s, tr.roi>> \in places
    /\ tr.roi = None /\ tr.hits > 0 =>
          /\ run.match = [place |-> tr.place, size |-> tr.size]
          /\ tr.size # None
          /\ tr.hits <= run.n /\ tr.hits < StableHits

\* The inductive invariant.
IInv == /\ TypeOK
        /\ Once(track, clicks, gone)
        /\ Known(track, screen, learned, streak)
        /\ PlacesAreLearned

USE PolicyAssumption

-----------------------------------------------------------------------------
(* The functions on a track.                                               *)

\* The smaller and the larger of two numbers.
LEMMA MinMax ==
    ASSUME NEW m \in Nat, NEW n \in Nat
    PROVE  /\ Min({m, n}) = IF m <= n THEN m ELSE n
           /\ Max({m, n}) = IF m <= n THEN n ELSE m
BY DEF Min, Max

\* Time that is left is not more than there was.
LEMMA LeftBound ==
    ASSUME NEW n \in Nat, NEW t \in 0..n, NEW e \in Nat PROVE Left(t, e) \in 0..n
<1>1. Max({t, e}) = IF t <= e THEN e ELSE t
  BY MinMax
<1> QED
  BY <1>1 DEF Left

\* A track without a past.
LEMMA NewType == New \in Tracks /\ \A c \in {0}, g \in Nat : Once(New, c, g)
BY DEF New, Tracks, Once

\* What is known of a place depends on four fields of the track only.
Alike(tr, other) == /\ other.size = tr.size /\ other.place = tr.place
                    /\ other.hits = tr.hits /\ other.roi = tr.roi

\* What is known of one track is known of another with the same fields.
LEMMA AlikeKnown ==
    ASSUME NEW tr \in Tracks, NEW other \in Tracks,
           NEW s, NEW places, NEW run \in Streaks, Alike(tr, other), Known(tr, s, places, run)
    PROVE  Known(other, s, places, run)
<1>1. [place |-> other.place, size |-> other.size] = [place |-> tr.place, size |-> tr.size]
  BY DEF Alike
<1>2. other.roi = tr.roi /\ other.hits = tr.hits /\ other.size = tr.size
  BY DEF Alike
<1>3. other.roi # None => <<s, other.roi>> \in places
  BY <1>2 DEF Known
<1>4. other.roi = None /\ other.hits > 0 =>
         /\ run.match = [place |-> other.place, size |-> other.size]
         /\ other.size # None /\ other.hits <= run.n /\ other.hits < StableHits
  <2> SUFFICES ASSUME other.roi = None, other.hits > 0
               PROVE  /\ run.match = [place |-> other.place, size |-> other.size]
                      /\ other.size # None /\ other.hits <= run.n /\ other.hits < StableHits
    OBVIOUS
  <2>1. tr.roi = None /\ tr.hits > 0
    BY <1>2
  <2>2. /\ run.match = [place |-> tr.place, size |-> tr.size]
        /\ tr.size # None /\ tr.hits <= run.n /\ tr.hits < StableHits
    BY <2>1 DEF Known
  <2> QED
    BY <1>1, <1>2, <2>2
<1> QED
  BY <1>3, <1>4 DEF Known

\* What a frame begins with.
LEMMA BeginKeeps ==
    ASSUME IInv, NEW f \in Frames
    PROVE  /\ Begin(f) \in Tracks
           /\ Once(Begin(f), IF Resized(f) THEN 0 ELSE clicks, IF Resized(f) THEN 0 ELSE gone)
           /\ Known(Begin(f), f.screen, learned, StreakBefore(f))
<1> USE DEF IInv, TypeOK
<1>0. f.screen \in Screens /\ f.elapsed \in Nat
  BY DEF Frames
<1>1. CASE Resized(f)
  <2>1. Restored(f.screen) \in Places \cup {None}
    BY DEF Restored, Entries, Records
  <2>2. Restored(f.screen) # None => <<f.screen, Restored(f.screen)>> \in learned
    BY DEF Restored, PlacesAreLearned
  <2>3. Begin(f) = [New EXCEPT !.roi = Restored(f.screen)]
    BY <1>1 DEF Begin
  <2>4. /\ Begin(f).roi = Restored(f.screen) /\ Begin(f).hits = 0
        /\ Begin(f).armed = TRUE /\ Begin(f).absent = 0 /\ Begin(f).pending = FALSE
    BY <2>3 DEF New
  <2>7. Begin(f) \in Tracks
    BY <2>1, <2>3, NewType DEF Tracks
  <2>5. Once(Begin(f), 0, 0)
    BY <2>4 DEF Once
  <2>6. Known(Begin(f), f.screen, learned, StreakBefore(f))
    BY <2>2, <2>4 DEF Known
  <2> QED
    BY <1>1, <2>5, <2>6, <2>7
<1>2. CASE ~Resized(f)
  <2>1. Left(track.due, f.elapsed) \in 0..Delay /\ Left(track.wait, f.elapsed) \in 0..Cooldown
    BY <1>0, LeftBound
  <2>2. Begin(f) = [track EXCEPT !.due = Left(track.due, f.elapsed),
                                 !.wait = Left(track.wait, f.elapsed)]
    BY <1>2 DEF Begin
  <2>3. /\ Begin(f) \in Tracks /\ Alike(track, Begin(f))
        /\ Begin(f).armed = track.armed /\ Begin(f).absent = track.absent
        /\ Begin(f).pending = track.pending
    BY <2>1, <2>2 DEF Tracks, Alike
  <2>4. f.screen = screen /\ StreakBefore(f) = streak
    BY <1>2 DEF Resized, StreakBefore
  <2>5. Once(Begin(f), clicks, gone)
    BY <2>3 DEF Once
  <2>6. Known(Begin(f), f.screen, learned, StreakBefore(f))
    BY <2>3, <2>4, AlikeKnown DEF Tracks, Streaks
  <2> QED
    BY <1>2, <2>3, <2>5, <2>6
<1> QED
  BY <1>1, <1>2

\* An action that is done disarms the target, if only a disappearance arms it
\* again; the count of frames without a match is then zero.  One that is tried is
\* that of an armed target, which none was done for.
LEMMA FinishKeeps ==
    ASSUME NEW tr \in Tracks, NEW o \in Outcomes, NEW c \in {0, 1}, NEW g \in Nat,
           Once(tr, c, g)
    PROVE  /\ Finish(tr, o) \in Tracks /\ Alike(tr, Finish(tr, o))
           /\ Once(Finish(tr, o), Count(c, tr, o), Since(g, tr, o))
           /\ Count(c, tr, o) \in {0, 1} /\ Since(g, tr, o) \in {0, g}
<1>0. /\ Since(g, tr, o) \in {0, g}
      /\ Due(tr) => tr.pending = TRUE /\ tr.armed = TRUE /\ tr.absent = 0 /\ c = 0
  BY DEF Since, Once, Due, Tracks
<1>1. CASE ~Due(tr) \/ o = "off"
  <2>1. Finish(tr, o) = tr
    BY <1>1 DEF Finish
  <2>2. Count(c, tr, o) = c /\ Since(g, tr, o) = g
    BY <1>1 DEF Count, Since, Clicks
  <2> QED
    BY <1>0, <2>1, <2>2 DEF Alike
<1>2. CASE Due(tr) /\ o = "tried"
  <2>1. Finish(tr, o) = [tr EXCEPT !.pending = FALSE]
    BY <1>2 DEF Finish
  <2>2. /\ Finish(tr, o) \in Tracks /\ Alike(tr, Finish(tr, o))
        /\ Finish(tr, o).pending = FALSE /\ Finish(tr, o).armed = tr.armed
        /\ Finish(tr, o).absent = tr.absent
    BY <2>1 DEF Tracks, Alike
  <2>3. Count(c, tr, o) = c /\ Since(g, tr, o) = g
    BY <1>0, <1>2 DEF Count, Since, Clicks
  <2>4. Once(Finish(tr, o), c, g)
    BY <2>2 DEF Once
  <2> QED
    BY <1>0, <2>2, <2>3, <2>4
<1>3. CASE Due(tr) /\ o = "done"
  <2> DEFINE still == tr.armed /\ Rearm = "timer"
  <2>0. tr.pending = TRUE /\ tr.armed = TRUE /\ tr.absent = 0 /\ c = 0
    BY <1>0, <1>3
  <2>1. Finish(tr, o) = [tr EXCEPT !.pending = FALSE, !.wait = Cooldown, !.armed = still]
    BY <1>3 DEF Finish
  <2>2. still \in BOOLEAN
    OBVIOUS
  <2>10. Since(g, tr, o) = 0
    BY <1>3 DEF Since, Clicks
  <2> HIDE DEF still
  <2>7. Finish(tr, o) \in Tracks
    <3>1. [tr EXCEPT !.armed = still] \in Tracks
      BY <2>2 DEF Tracks
    <3>2. Finish(tr, o) = [[tr EXCEPT !.armed = still] EXCEPT !.pending = FALSE,
                                                             !.wait = Cooldown]
      BY <2>1 DEF Tracks
    <3>3. ASSUME NEW u \in Tracks
          PROVE  [u EXCEPT !.pending = FALSE, !.wait = Cooldown] \in Tracks
      <4>1. Cooldown \in 0..Cooldown
        OBVIOUS
      <4> QED
        BY <4>1 DEF Tracks
    <3> QED
      BY <3>1, <3>2, <3>3
  <2>8. Alike(tr, Finish(tr, o)) /\ Finish(tr, o).absent = tr.absent
    BY <2>1 DEF Tracks, Alike
  <2>9. Finish(tr, o).pending = FALSE /\ Finish(tr, o).armed = still
    BY <2>1, <2>2, Zenon DEF Tracks
  <2>5. CASE Rearm = "disappear"
    <3>1. still = FALSE
      BY <2>5 DEF still
    <3>2. Count(c, tr, o) = 1
      BY <1>3, <2>0, <2>5 DEF Count, Clicks
    <3>3. Once(Finish(tr, o), 1, 0)
      BY <2>0, <2>8, <2>9, <3>1 DEF Once
    <3> QED
      BY <1>0, <2>7, <2>8, <2>10, <3>2, <3>3
  <2>6. CASE Rearm # "disappear"
    <3>1. still = TRUE
      BY <2>0, <2>6 DEF still
    <3>2. Count(c, tr, o) = 0
      BY <2>0, <2>6 DEF Count
    <3>3. Once(Finish(tr, o), 0, 0)
      BY <2>0, <2>8, <2>9, <3>1 DEF Once
    <3> QED
      BY <1>0, <2>7, <2>8, <2>10, <3>2, <3>3
  <2> QED
    BY <2>5, <2>6
<1> QED
  BY <1>1, <1>2, <1>3 DEF Outcomes

\* The track of a match: one of another size makes it forget its place, and its
\* hits; without a place, the hits at the place of the match are counted.
LEMMA PlacedKeeps ==
    ASSUME NEW tr \in Tracks, NEW m \in Matches, NEW s, NEW places, NEW run \in Streaks,
           Known(tr, s, places, run)
    PROVE  LET new == Placed(tr, m)
           IN  /\ new \in Tracks
               /\ new.armed = tr.armed /\ new.pending = tr.pending /\ new.due = tr.due
               /\ \/ tr.roi # None /\ ~Forgets(tr, m) /\ new.roi = tr.roi
                  \/ /\ new.place = m.place /\ new.hits \in 1..StableHits
                     /\ \/ new.hits = 1
                        \/ /\ new.hits = tr.hits + 1 /\ tr.hits > 0
                           /\ tr.roi = None /\ ~Forgets(tr, m) /\ tr.place = m.place
                     /\ new.hits < StableHits => new.roi = None
                     /\ new.hits = StableHits => new.roi = m.place
<1> DEFINE old == IF Forgets(tr, m) THEN [tr EXCEPT !.hits = 0, !.roi = None] ELSE tr
           hits == IF old.hits > 0 /\ old.place = m.place THEN old.hits + 1 ELSE 1
           new == Placed(tr, m)
<1>0. m.place \in Places /\ m.place # None
  BY DEF Matches
<1>1. /\ old \in Tracks
      /\ old.armed = tr.armed /\ old.pending = tr.pending /\ old.due = tr.due
      /\ old.place = tr.place
      /\ Forgets(tr, m) => old.hits = 0 /\ old.roi = None
      /\ ~Forgets(tr, m) => old.hits = tr.hits /\ old.roi = tr.roi
  <2>1. CASE Forgets(tr, m)
    <3>1. old = [tr EXCEPT !.hits = 0, !.roi = None]
      BY <2>1
    <3> HIDE DEF old
    <3>2. [tr EXCEPT !.hits = 0, !.roi = None] \in Tracks
      <4>1. 0 \in 0..StableHits
        OBVIOUS
      <4> QED
        BY <4>1 DEF Tracks
    <3>3. /\ old.armed = tr.armed /\ old.pending = tr.pending /\ old.due = tr.due
          /\ old.place = tr.place /\ old.hits = 0 /\ old.roi = None
      BY <3>1 DEF Tracks
    <3> QED
      BY <2>1, <3>1, <3>2, <3>3
  <2>2. CASE ~Forgets(tr, m)
    BY <2>2
  <2> QED
    BY <2>1, <2>2
<1>2. new = IF old.roi # None THEN old
            ELSE [old EXCEPT !.hits = hits, !.place = m.place,
                             !.roi = IF hits >= StableHits THEN m.place ELSE None]
  BY DEF Placed
<1> HIDE DEF old, new
<1>3. CASE old.roi # None
  <2>1. new = old
    BY <1>2, <1>3
  <2>2. tr.roi # None /\ ~Forgets(tr, m) /\ old.roi = tr.roi
    BY <1>1, <1>3
  <2> QED
    BY <1>1, <2>1, <2>2 DEF new
<1>4. CASE old.roi = None
  <2>1. old.hits \in Nat /\ (old.hits > 0 => old.hits < StableHits)
    BY <1>1, <1>4 DEF Known, Tracks
  <2>2. hits \in 1..StableHits
    BY <2>1
  <2>3. \/ hits = 1
        \/ /\ hits = tr.hits + 1 /\ tr.hits > 0
           /\ tr.roi = None /\ ~Forgets(tr, m) /\ tr.place = m.place
    BY <1>1, <1>4, <2>1
  <2> DEFINE roi == IF hits >= StableHits THEN m.place ELSE None
  <2>4. roi \in Places \cup {None}
    BY <1>0
  <2>5. /\ hits < StableHits => roi = None
        /\ hits = StableHits => roi = m.place
    BY <2>2
  <2>6. new = [old EXCEPT !.hits = hits, !.place = m.place, !.roi = roi]
    BY <1>2, <1>4
  <2> HIDE DEF hits, roi
  <2>7. /\ new \in Tracks
        /\ new.armed = old.armed /\ new.pending = old.pending /\ new.due = old.due
        /\ new.place = m.place /\ new.hits = hits /\ new.roi = roi
    <3>1. hits \in 0..StableHits
      BY <2>2
    <3> QED
      BY <1>0, <1>1, <2>4, <2>6, <3>1 DEF Tracks
  <2> QED
    BY <1>1, <2>2, <2>3, <2>5, <2>7 DEF new
<1> QED
  BY <1>3, <1>4

\* A match resets the count of frames without one, and only an armed target is aimed
\* at.  A place comes from StableHits matches in a row, and is then learned.
LEMMA HitKeeps ==
    ASSUME NEW tr \in Tracks, NEW m \in Matches, NEW c \in {0, 1}, NEW g \in Nat,
           NEW s, NEW places, NEW run \in Streaks,
           Once(tr, c, g), Known(tr, s, places, run)
    PROVE  LET n == IF run.match = m THEN run.n + 1 ELSE 1
               row == [match |-> m, n |-> Min({n, StableHits})]
               now == places \cup {<<s, m.place>> : i \in IF n >= StableHits THEN {n} ELSE {}}
           IN  /\ Hit(tr, m) \in Tracks /\ Hit(tr, m).roi = Placed(tr, m).roi
               /\ Once(Hit(tr, m), c, 0)
               /\ row \in Streaks
               /\ Known(Hit(tr, m), s, now, row)
<1> DEFINE n == IF run.match = m THEN run.n + 1 ELSE 1
           row == [match |-> m, n |-> Min({n, StableHits})]
           now == places \cup {<<s, m.place>> : i \in IF n >= StableHits THEN {n} ELSE {}}
           new == Placed(tr, m)
           hit == Hit(tr, m)
<1>1. n \in Nat \ {0}
  BY DEF Streaks
<1>2. Min({n, StableHits}) = IF n <= StableHits THEN n ELSE StableHits
  BY <1>1, MinMax
<1>3. row \in Streaks /\ row.match = m /\ row.n = Min({n, StableHits})
  BY <1>1, <1>2 DEF Streaks
<1>4. places \subseteq now /\ (n >= StableHits => <<s, m.place>> \in now)
  OBVIOUS
<1>5. m = [place |-> m.place, size |-> m.size] /\ m.size \in Sizes
  BY DEF Matches
<1> HIDE DEF n, row, now
<1>6. /\ new \in Tracks /\ new.armed = tr.armed /\ new.pending = tr.pending
      /\ new.due = tr.due
  BY PlacedKeeps
<1>7. /\ hit \in Tracks
      /\ hit.armed = tr.armed /\ hit.absent = 0 /\ hit.pending = (tr.pending \/ tr.armed)
      /\ hit.size = m.size /\ hit.place = new.place /\ hit.hits = new.hits
      /\ hit.roi = new.roi
  <2> DEFINE aimed == tr.pending \/ tr.armed
             due == IF tr.armed /\ ~tr.pending THEN Delay ELSE tr.due
  <2>1. aimed \in BOOLEAN
    OBVIOUS
  <2>2. due \in 0..Delay
    BY DEF Tracks
  <2>3. hit = [[[new EXCEPT !.pending = aimed] EXCEPT !.due = due]
                        EXCEPT !.size = m.size, !.absent = 0]
    <3>1. Aim(new) = [[new EXCEPT !.pending = aimed] EXCEPT !.due = due]
      BY <1>6 DEF Aim, Tracks
    <3> QED
      BY <3>1 DEF Hit
  <2> HIDE DEF new, hit, aimed, due
  <2>4. [new EXCEPT !.pending = aimed] \in Tracks
    BY <1>6, <2>1 DEF Tracks
  <2>5. hit \in Tracks
    <3> DEFINE aiming == [[new EXCEPT !.pending = aimed] EXCEPT !.due = due]
    <3>1. aiming \in Tracks
      BY <2>2, <2>4 DEF Tracks
    <3>2. hit = [aiming EXCEPT !.size = m.size, !.absent = 0]
      BY <2>3
    <3>3. 0 \in 0..DisappearFrames - 1
      OBVIOUS
    <3> HIDE DEF aiming
    <3> QED
      BY <1>5, <3>1, <3>2, <3>3 DEF Tracks
  <2>6. /\ hit.armed = new.armed /\ hit.absent = 0
        /\ hit.size = m.size /\ hit.place = new.place /\ hit.hits = new.hits
        /\ hit.roi = new.roi
    BY <1>6, <2>3 DEF Tracks
  <2>7. hit.pending = aimed
    BY <1>6, <2>3 DEF Tracks
  <2> QED
    BY <1>6, <2>5, <2>6, <2>7 DEF hit, new, aimed
<1>8. Once(hit, c, 0)
  <2>1. hit.pending => tr.armed
    BY <1>7 DEF Once
  <2>2. tr.armed => c = 0
    BY DEF Once
  <2>3. hit.armed = tr.armed /\ hit.absent = 0
    BY <1>7
  <2> QED
    BY <2>1, <2>2, <2>3 DEF Once
<1>9. Known(hit, s, now, row)
  <2>1. CASE tr.roi # None /\ ~Forgets(tr, m) /\ new.roi = tr.roi
    <3>1. <<s, tr.roi>> \in places
      BY <2>1 DEF Known
    <3> QED
      BY <1>4, <1>7, <2>1, <3>1 DEF Known
  <2>2. CASE /\ new.place = m.place /\ new.hits \in 1..StableHits
             /\ \/ new.hits = 1
                \/ /\ new.hits = tr.hits + 1 /\ tr.hits > 0
                   /\ tr.roi = None /\ ~Forgets(tr, m) /\ tr.place = m.place
             /\ new.hits < StableHits => new.roi = None
             /\ new.hits = StableHits => new.roi = m.place
    <3>1. new.hits <= n
      <4>1. CASE new.hits = 1
        BY <1>1, <4>1
      <4>2. CASE /\ new.hits = tr.hits + 1 /\ tr.hits > 0
                 /\ tr.roi = None /\ ~Forgets(tr, m) /\ tr.place = m.place
        <5>1. /\ run.match = [place |-> tr.place, size |-> tr.size]
              /\ tr.size # None /\ tr.hits <= run.n
          BY <4>2 DEF Known
        <5>2. tr.size = m.size
          BY <4>2, <5>1 DEF Forgets
        <5>3. run.match = m
          BY <1>5, <4>2, <5>1, <5>2
        <5> QED
          BY <4>2, <5>1, <5>3 DEF n, Streaks, Tracks
      <4> QED
        BY <2>2, <4>1, <4>2
    <3>2. hit.roi # None => <<s, hit.roi>> \in now
      <4> SUFFICES ASSUME hit.roi # None PROVE <<s, hit.roi>> \in now
        OBVIOUS
      <4>1. new.hits = StableHits /\ new.roi = m.place
        BY <1>7, <2>2
      <4>2. n >= StableHits
        BY <1>1, <3>1, <4>1
      <4> QED
        BY <1>4, <1>7, <4>1, <4>2
    <3>3. hit.hits <= row.n
      BY <1>1, <1>2, <1>3, <1>7, <2>2, <3>1
    <3>4. hit.roi = None => hit.hits < StableHits
      <4>1. m.place # None
        BY DEF Matches
      <4> QED
        BY <1>7, <2>2, <4>1
    <3>5. row.match = [place |-> hit.place, size |-> hit.size] /\ hit.size # None
      BY <1>3, <1>5, <1>7, <2>2
    <3> QED
      BY <3>2, <3>3, <3>4, <3>5 DEF Known
  <2> QED
    BY <2>1, <2>2, PlacedKeeps
<1> QED
  BY <1>3, <1>7, <1>8, <1>9 DEF row, now, n

\* Enough frames without a match arm the target again, and not before it was gone
\* for as many; a match in a row is none after a frame without one.
LEMMA MissKeeps ==
    ASSUME NEW tr \in Tracks, NEW c \in {0, 1}, NEW g \in Nat, Once(tr, c, g),
           NEW s, NEW places, NEW run, Known(tr, s, places, run)
    PROVE  LET now == Min({g + 1, DisappearFrames})
           IN  /\ Miss(tr) \in Tracks
               /\ Miss(tr).pending = tr.pending /\ Miss(tr).due = tr.due
               /\ Once(Miss(tr), IF now = DisappearFrames THEN 0 ELSE c, now)
               /\ Known(Miss(tr), s, places, NoStreak)
<1> DEFINE now == Min({g + 1, DisappearFrames})
           enough == tr.absent + 1 >= DisappearFrames
           hits == IF tr.roi = None THEN 0 ELSE tr.hits
           absent == IF tr.armed THEN tr.absent
                     ELSE IF enough THEN 0 ELSE tr.absent + 1
           armed == tr.armed \/ enough
           miss == Miss(tr)
<1>1. now = IF g + 1 <= DisappearFrames THEN g + 1 ELSE DisappearFrames
  BY MinMax
<1>2. hits \in 0..StableHits /\ absent \in 0..DisappearFrames - 1
  BY DEF Tracks
<1>3. armed \in BOOLEAN
  OBVIOUS
<1>4. miss = [[tr EXCEPT !.hits = hits, !.absent = absent] EXCEPT !.armed = armed]
  <2>1. (CASE tr.armed -> tr.absent [] ~tr.armed /\ enough -> 0
           [] OTHER -> tr.absent + 1) = absent
    OBVIOUS
  <2> QED
    BY <2>1 DEF Miss, Tracks
<1> HIDE DEF hits, absent, armed, miss, now
<1>5. [tr EXCEPT !.hits = hits, !.absent = absent] \in Tracks
  BY <1>2 DEF Tracks
<1>6. /\ miss \in Tracks
      /\ miss.pending = tr.pending /\ miss.due = tr.due /\ miss.roi = tr.roi
      /\ miss.hits = hits /\ miss.absent = absent
  BY <1>3, <1>4, <1>5 DEF Tracks
<1>7. miss.armed = armed
  BY <1>3, <1>4, <1>5 DEF Tracks
<1>8. Once(miss, IF now = DisappearFrames THEN 0 ELSE c, now)
  <2>1. tr.absent \in 0..DisappearFrames - 1
    BY DEF Tracks
  <2>2. CASE tr.armed
    <3>1. tr.absent = 0 /\ c = 0
      BY <2>2 DEF Once
    <3>2. miss.armed /\ miss.absent = 0
      BY <1>6, <1>7, <2>2, <3>1 DEF armed, absent
    <3> QED
      BY <3>1, <3>2 DEF Once
  <2>3. CASE ~tr.armed
    <3>1. ~tr.pending /\ tr.absent <= g
      BY <2>3 DEF Once
    <3>2. CASE enough
      <4>1. now = DisappearFrames
        BY <1>1, <2>1, <3>1, <3>2
      <4>2. miss.armed /\ miss.absent = 0
        BY <1>6, <1>7, <2>3, <3>2 DEF armed, absent
      <4> QED
        BY <4>1, <4>2 DEF Once
    <3>3. CASE ~enough
      <4>1. tr.absent + 1 <= now
        BY <1>1, <2>1, <3>1, <3>3
      <4>2. ~miss.armed /\ miss.absent = tr.absent + 1 /\ ~miss.pending
        BY <1>6, <1>7, <2>3, <3>1, <3>3 DEF armed, absent
      <4> QED
        BY <4>1, <4>2 DEF Once
    <3> QED
      BY <3>2, <3>3
  <2> QED
    BY <2>2, <2>3
<1>9. Known(miss, s, places, NoStreak)
  BY <1>6 DEF Known, hits
<1> QED
  BY <1>6, <1>8, <1>9 DEF miss, now

-----------------------------------------------------------------------------
(* The steps.                                                              *)

\* The track that a target is looked for with, after the action that was due.
LEMMA ActedKeeps ==
    ASSUME IInv, NEW f \in Frames
    PROVE  /\ f.screen \in Screens
           /\ Acted(f) \in Tracks
           /\ ClicksBefore(f) \in {0, 1} /\ GoneBefore(f) \in 0..DisappearFrames
           /\ StreakBefore(f) \in Streaks
           /\ Once(Acted(f), ClicksBefore(f), GoneBefore(f))
           /\ Known(Acted(f), f.screen, learned, StreakBefore(f))
<1> DEFINE c == IF Resized(f) THEN 0 ELSE clicks
           g == IF Resized(f) THEN 0 ELSE gone
           tr == Begin(f)
<1>1. f.screen \in Screens /\ f.first \in Outcomes
  BY DEF Frames
<1>2. tr \in Tracks /\ Once(tr, c, g) /\ Known(tr, f.screen, learned, StreakBefore(f))
  BY BeginKeeps
<1>3. c \in {0, 1} /\ g \in 0..DisappearFrames
  BY DEF IInv, TypeOK, Once
<1>4. StreakBefore(f) \in Streaks
  BY DEF IInv, TypeOK, StreakBefore, Streaks, NoStreak
<1>5. /\ ClicksBefore(f) = Count(c, tr, f.first)
      /\ GoneBefore(f) = Since(g, tr, f.first)
      /\ Acted(f) = Finish(tr, f.first)
  BY DEF ClicksBefore, GoneBefore, Acted
<1> HIDE DEF c, g, tr
<1>6. /\ Finish(tr, f.first) \in Tracks /\ Alike(tr, Finish(tr, f.first))
      /\ Once(Finish(tr, f.first), Count(c, tr, f.first), Since(g, tr, f.first))
      /\ Count(c, tr, f.first) \in {0, 1} /\ Since(g, tr, f.first) \in {0, g}
  BY <1>1, <1>2, <1>3, FinishKeeps
<1>7. Known(Finish(tr, f.first), f.screen, learned, StreakBefore(f))
  BY <1>2, <1>4, <1>6, AlikeKnown
<1> QED
  BY <1>1, <1>3, <1>4, <1>5, <1>6, <1>7

\* The end of a frame keeps what is known after the target was looked for.
LEMMA EndKeeps ==
    ASSUME NEW f \in Frames, NEW tr \in Tracks, NEW c \in {0, 1},
           NEW g \in 0..DisappearFrames, Once(tr, c, g),
           NEW places, NEW run \in Streaks, Known(tr, f.screen, places, run),
           End(f, tr, c, g)
    PROVE  /\ track' \in Tracks /\ screen' = f.screen /\ others' = others
           /\ gone' \in 0..DisappearFrames
           /\ Once(track', clicks', gone')
           /\ Known(track', f.screen, places, run)
<1>1. f.second \in Outcomes
  BY DEF Frames
<1>2. /\ track' = Finish(tr, f.second) /\ clicks' = Count(c, tr, f.second)
      /\ gone' = Since(g, tr, f.second) /\ screen' = f.screen /\ others' = others
  BY DEF End
<1>3. /\ Finish(tr, f.second) \in Tracks /\ Alike(tr, Finish(tr, f.second))
      /\ Once(Finish(tr, f.second), Count(c, tr, f.second), Since(g, tr, f.second))
      /\ Since(g, tr, f.second) \in {0, g}
  BY <1>1, FinishKeeps
<1>4. Known(Finish(tr, f.second), f.screen, places, run)
  BY <1>3, AlikeKnown
<1> QED
  BY <1>2, <1>3, <1>4

\* What a step shows of the next state.
LEMMA Shown ==
    ASSUME track' \in Tracks, screen' \in Screens \cup {None},
           {states', others', file'} \subseteq Entries,
           gone' \in 0..DisappearFrames, streak' \in Streaks,
           learned' \subseteq Screens \X Places,
           Once(track', clicks', gone'), Known(track', screen', learned', streak'),
           \A entry \in {states', others', file'} \ {None} :
              <<entry.screen, entry.place>> \in learned'
    PROVE  IInv'
<1>1. clicks' \in Nat
  BY DEF Once
<1>2. TypeOK'
  BY <1>1 DEF TypeOK, Tracks, Streaks
<1>3. Once(track, clicks, gone)' /\ Known(track, screen, learned, streak)'
  BY DEF Once, Known
<1>4. PlacesAreLearned'
  BY DEF PlacesAreLearned, Known
<1> QED
  BY <1>2, <1>3, <1>4 DEF IInv

\* What every state that is reached has.
LEMMA Tables ==
    ASSUME IInv
    PROVE  /\ {states, others, file} \subseteq Entries
           /\ learned \subseteq Screens \X Places
           /\ \A entry \in {states, others, file} \ {None} :
                 <<entry.screen, entry.place>> \in learned
BY DEF IInv, TypeOK, PlacesAreLearned

\* The target is off, or in the wait after an action.
LEMMA SkipsStep == ASSUME IInv, NEW f \in Frames, Skips(f) PROVE IInv'
<1>1. /\ End(f, Acted(f), ClicksBefore(f), GoneBefore(f))
      /\ streak' = StreakBefore(f)
      /\ states' = states /\ file' = file /\ learned' = learned
  BY DEF Skips
<1>2. /\ track' \in Tracks /\ screen' = f.screen /\ others' = others
      /\ gone' \in 0..DisappearFrames
      /\ Once(track', clicks', gone')
      /\ Known(track', f.screen, learned, StreakBefore(f))
  BY <1>1, ActedKeeps, EndKeeps
<1> QED
  BY <1>1, <1>2, ActedKeeps, Tables, Shown

\* A frame without the target.
LEMMA NotFoundStep == ASSUME IInv, NEW f \in Frames, NotFound(f) PROVE IInv'
<1> DEFINE now == Min({GoneBefore(f) + 1, DisappearFrames})
           c == IF now = DisappearFrames THEN 0 ELSE ClicksBefore(f)
           miss == Miss(Acted(f))
<1>1. /\ End(f, miss, c, now) /\ streak' = NoStreak
      /\ states' = states /\ file' = file /\ learned' = learned
  BY DEF NotFound
<1>2. /\ Acted(f) \in Tracks /\ f.screen \in Screens
      /\ ClicksBefore(f) \in {0, 1} /\ GoneBefore(f) \in Nat
      /\ Once(Acted(f), ClicksBefore(f), GoneBefore(f))
      /\ Known(Acted(f), f.screen, learned, StreakBefore(f))
  BY ActedKeeps
<1>3. /\ miss \in Tracks /\ Once(miss, c, now) /\ Known(miss, f.screen, learned, NoStreak)
  BY <1>2, MissKeeps
<1>4. now \in 0..DisappearFrames /\ c \in {0, 1}
  BY <1>2, MinMax
<1>5. NoStreak \in Streaks
  BY DEF NoStreak, Streaks
<1> HIDE DEF now, c, miss
<1>6. /\ track' \in Tracks /\ screen' = f.screen /\ others' = others
      /\ gone' \in 0..DisappearFrames
      /\ Once(track', clicks', gone')
      /\ Known(track', f.screen, learned, NoStreak)
  BY <1>1, <1>3, <1>4, <1>5, EndKeeps
<1> QED
  BY <1>1, <1>2, <1>5, <1>6, Tables, Shown

\* A frame with the target.
LEMMA FoundStep ==
    ASSUME IInv, NEW f \in Frames, NEW m \in Matches, Found(f, m) PROVE IInv'
<1> DEFINE before == Acted(f)
           after == Hit(before, m)
           n == IF StreakBefore(f).match = m THEN StreakBefore(f).n + 1 ELSE 1
           row == [match |-> m, n |-> Min({n, StableHits})]
           now == learned \cup
                  {<<f.screen, m.place>> : i \in IF n >= StableHits THEN {n} ELSE {}}
           c == ClicksBefore(f)
<1>1. End(f, after, c, 0) /\ streak' = row /\ learned' = now
  BY DEF Found
<1>2. /\ before \in Tracks /\ f.screen \in Screens
      /\ c \in {0, 1} /\ GoneBefore(f) \in 0..DisappearFrames
      /\ StreakBefore(f) \in Streaks
      /\ Once(before, c, GoneBefore(f))
      /\ Known(before, f.screen, learned, StreakBefore(f))
  BY ActedKeeps
<1>3. GoneBefore(f) \in Nat
  BY <1>2
<1>4. /\ after \in Tracks /\ Once(after, c, 0) /\ row \in Streaks
      /\ Known(after, f.screen, now, row)
  BY <1>2, <1>3, HitKeeps
<1>5. now \subseteq Screens \X Places
  BY <1>2, Tables DEF Matches
<1>6. \/ states' = states /\ file' = file
      \/ /\ after.roi # None /\ states' = [screen |-> f.screen, place |-> after.roi]
         /\ file' \in {states', file}
      \/ states' = None /\ file' \in {states', file}
  BY DEF Found, Save
<1>7. learned \subseteq now
  OBVIOUS
<1> HIDE DEF before, after, row, now, c
<1>8. /\ track' \in Tracks /\ screen' = f.screen /\ others' = others
      /\ gone' \in 0..DisappearFrames
      /\ Once(track', clicks', gone')
      /\ Known(track', f.screen, now, row)
  <2>1. 0 \in 0..DisappearFrames
    OBVIOUS
  <2> QED
    BY <1>1, <1>2, <1>4, <2>1, EndKeeps
<1>9. {states', others', file'} \subseteq Entries
  <2>1. CASE states' = states /\ file' = file
    BY <1>8, <2>1, Tables
  <2>2. CASE states' = None /\ file' \in {states', file}
    BY <1>8, <2>2, Tables DEF Entries
  <2>3. CASE /\ after.roi # None /\ states' = [screen |-> f.screen, place |-> after.roi]
             /\ file' \in {states', file}
    <3>1. after.roi \in Places
      BY <1>4, <2>3 DEF Tracks
    <3>2. states' \in Entries
      BY <1>2, <2>3, <3>1 DEF Entries, Records
    <3> QED
      BY <1>8, <2>3, <3>2, Tables
  <2> QED
    BY <1>6, <2>1, <2>2, <2>3
<1>10. ASSUME NEW entry \in {states', others', file'} \ {None}
       PROVE  <<entry.screen, entry.place>> \in now
  <2>1. CASE entry \in {states, others, file}
    BY <1>7, <2>1, Tables
  <2>2. CASE after.roi # None /\ entry = [screen |-> f.screen, place |-> after.roi]
    <3>1. <<f.screen, after.roi>> \in now
      BY <1>4, <2>2 DEF Known
    <3> QED
      BY <2>2, <3>1
  <2> QED
    BY <1>6, <1>8, <2>1, <2>2
<1> QED
  BY <1>1, <1>2, <1>4, <1>5, <1>8, <1>9, <1>10, Shown

\* The script is started again: the file may have lost places, never gained one.
LEMMA RestartStep == ASSUME IInv, Restart PROVE IInv'
<1>1. New \in Tracks /\ Once(New, 0, 0) /\ NoStreak \in Streaks
  BY NewType DEF NoStreak, Streaks
<1>2. Known(New, None, learned, NoStreak)
  BY DEF Known, New
<1> QED
  BY <1>1, <1>2, Tables, Shown DEF Restart

\* The other engine writes its table over what the file had.
LEMMA OtherStep == ASSUME IInv, OtherSaves PROVE IInv'
<1>1. /\ track \in Tracks /\ screen \in Screens \cup {None} /\ gone \in 0..DisappearFrames
      /\ streak \in Streaks /\ Once(track, clicks, gone)
      /\ Known(track, screen, learned, streak)
  BY DEF IInv, TypeOK, Tracks, Streaks
<1> QED
  BY <1>1, Tables, Shown DEF OtherSaves, policyVars, history

-----------------------------------------------------------------------------
(* The theorems.                                                           *)

\* The invariant holds in every state.
THEOREM Invariance == Spec => []IInv
<1>1. Init => IInv
  <2> SUFFICES ASSUME Init PROVE IInv
    OBVIOUS
  <2>1. New \in Tracks /\ Once(New, 0, 0) /\ NoStreak \in Streaks
    BY NewType DEF NoStreak, Streaks
  <2>2. Known(New, None, {}, NoStreak)
    BY DEF Known, New
  <2>3. TypeOK
    BY <2>1 DEF Init, TypeOK, Tracks, Streaks, Entries
  <2>4. PlacesAreLearned
    BY DEF Init, PlacesAreLearned, New
  <2> QED
    BY <2>1, <2>2, <2>3, <2>4 DEF Init, IInv
<1>2. IInv /\ [Next]_vars => IInv'
  <2> SUFFICES ASSUME IInv, [Next]_vars PROVE IInv'
    OBVIOUS
  <2>1. ASSUME NEW f \in Frames, Process(f) PROVE IInv'
    BY <2>1, SkipsStep, NotFoundStep, FoundStep DEF Process
  <2>2. CASE UNCHANGED vars
    BY <2>2 DEF IInv, TypeOK, Once, Known, PlacesAreLearned,
                vars, policyVars, tableVars, history
  <2> QED
    BY <2>1, <2>2, OtherStep, RestartStep DEF Next
<1> QED
  BY <1>1, <1>2, PTL DEF Spec

\* The variables keep their types.
THEOREM TypeCorrect == Spec => []TypeOK
<1>1. IInv => TypeOK
  BY DEF IInv
<1> QED
  BY <1>1, Invariance, PTL

\* Once an action was done no other is tried before the target was gone for long
\* enough, for any delay and wait, whatever the script answers when it is asked, and
\* whatever fails.  With rearm = "timer" the property says nothing: the count is
\* that of the default.
THEOREM NothingAfterDone == Spec => []DoneIsLast
<1>1. IInv => DoneIsLast
  BY DEF IInv, Once, DoneIsLast
<1> QED
  BY <1>1, Invariance, PTL

\* A place that restricts the search was learned, whatever the engines of the script
\* have written over each other and whichever writes have failed.
THEOREM Learned == Spec => []PlacesAreLearned
<1>1. IInv => PlacesAreLearned
  BY DEF IInv
<1> QED
  BY <1>1, Invariance, PTL
=============================================================================
