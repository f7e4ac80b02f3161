---------------------------- MODULE VisionPolicy ----------------------------
(***************************************************************************)
(* The declarative vision policy of a script                               *)
(* (crates/forge-core/src/lua_vision.lua): what an engine does with every  *)
(* frame.  A target that is found is clicked, after a delay, and then not  *)
(* again before a wait and, by default, before it has been gone for some   *)
(* frames.  A target found often enough at one place is looked for there   *)
(* only, and the place is kept in the state file of the device, which the  *)
(* engines of the script share: each has its own copy of the whole table,  *)
(* read when the script starts, and writes that.                           *)
(*                                                                         *)
(* An action that raises is not done for the engine, which is then free to *)
(* try again.  It may still take place: a tap that timed out at            *)
(* session.rs:1489 stays in the queue of the input writer.                 *)
(*                                                                         *)
(* One engine with one target is modelled frame by frame; of the other     *)
(* engines, which only meet it in the file, one that learns and forgets.   *)
(* A match is a place, within the tolerance, and a size, within the ratio. *)
(***************************************************************************)
EXTENDS Naturals, FiniteSetsExt

CONSTANTS Screens,          \* sizes of a frame
          Places, Sizes,    \* what is told apart of a match
          StableHits,       \* tracking.stable_hits
          DisappearFrames,  \* disappear_frames
          Delay,            \* action_delay_ms
          Cooldown,         \* cooldown_ms
          Rearm,            \* rearm, "disappear" by default
          MaxElapsed,       \* bound: time between two frames
          None

ASSUME PolicyAssumption ==
    /\ StableHits \in Nat \ {0} /\ DisappearFrames \in Nat \ {0}
    /\ Rearm \in {"disappear", "timer"}
    /\ Delay \in Nat /\ Cooldown \in Nat /\ MaxElapsed \in Nat
    /\ None \notin Screens \cup Places \cup Sizes

VARIABLES
    track,      \* the target's track
    screen,     \* frame_size
    states,     \* the target's entry in the engine's table,
    others,     \* in the table of the other engine
    file,       \* and in the state file
    clicks,     \* history: actions since the target was last gone, from the
                \* first one on that was reported as done
    gone,       \* history: frames it has been gone for, since the last click
    streak,     \* history: the last match and how often it came in a row
    learned     \* history: the places it was found at StableHits times in a row

policyVars == <<track, screen>>
tableVars == <<states, others, file>>
history == <<clicks, gone, streak, learned>>
vars == <<policyVars, tableVars, history>>

Matches == [place : Places, size : Sizes]
Records == [screen : Screens, place : Places]
\* What a table has about this engine's target.
Entries == Records \cup {None}

\* A track without a past.
New == [size |-> None, place |-> None, hits |-> 0, roi |-> None,
        armed |-> TRUE, absent |-> 0, pending |-> FALSE, due |-> 0, wait |-> 0]

NoStreak == [match |-> None, n |-> 0]

Init ==
    /\ track = New
    /\ screen = None
    /\ states = None /\ others = None /\ file = None
    /\ clicks = 0 /\ gone = 0
    /\ streak = NoStreak
    /\ learned = {}

-----------------------------------------------------------------------------
(* A frame f is its screen size, the time since the last one, and what the *)
(* script's own functions answer, which are called anew each time: whether *)
(* the target is active when it is to be looked for, and what comes of an  *)
(* action that is due before that (first) and after it (second).  The      *)
(* target may be off then; an action that declines or raises was tried.    *)

Outcomes == {"off", "tried", "done"}

Frames == [screen : Screens, elapsed : 0..MaxElapsed, active : BOOLEAN,
           first : Outcomes, second : Outcomes]

Left(time, elapsed) == Max({time, elapsed}) - elapsed

\* Mutant: the size of the screen that the place was learned on is ignored.
RestoredAnyway(s) == IF states = None THEN None ELSE states.place

\* restore_persisted
Restored(s) ==
    IF states # None /\ states.screen = s THEN states.place ELSE None

Resized(f) == f.screen # screen

\* On another size of screen a track starts again, with the place it knows there.
Begin(f) ==
    IF Resized(f) THEN [New EXCEPT !.roi = Restored(f.screen)]
    ELSE [track EXCEPT !.due = Left(@, f.elapsed), !.wait = Left(@, f.elapsed)]

Due(tr) == tr.pending /\ tr.due = 0

\* finish_pending: only an action that was done starts the wait.
Finish(tr, outcome) ==
    CASE ~Due(tr) \/ outcome = "off" -> tr
      [] Due(tr) /\ outcome = "tried" -> [tr EXCEPT !.pending = FALSE]
      [] Due(tr) /\ outcome = "done" ->
            [tr EXCEPT !.pending = FALSE, !.wait = Cooldown,
                       !.armed = @ /\ Rearm = "timer"]

\* The match has another size than the last one: the place is forgotten.
Forgets(tr, m) == tr.size \notin {None, m.size}

\* update_track: a place is learned from hits in a row that are near the first.
Placed(tr, m) ==
    LET old == IF Forgets(tr, m) THEN [tr EXCEPT !.hits = 0, !.roi = None] ELSE tr
        hits == IF old.hits > 0 /\ old.place = m.place THEN old.hits + 1 ELSE 1
    IN  IF old.roi # None THEN old
        ELSE [old EXCEPT !.hits = hits, !.place = m.place,
                         !.roi = IF hits >= StableHits THEN m.place ELSE None]

\* An armed target is to be clicked; if it is already, its centre is refreshed.
Aim(tr) == [tr EXCEPT !.pending = @ \/ tr.armed,
                      !.due = IF tr.armed /\ ~tr.pending THEN Delay ELSE @]

\* Mutant: frames without the target need not follow each other.
HitKeepsAbsent(tr, m) == [Aim(Placed(tr, m)) EXCEPT !.size = m.size]

Hit(tr, m) == [Aim(Placed(tr, m)) EXCEPT !.size = m.size, !.absent = 0]

\* Mutant: the count of frames is not taken back when the target is armed.
MissKeepsAbsent(tr) ==
    [tr EXCEPT !.hits = IF tr.roi = None THEN 0 ELSE @,
               !.absent = IF tr.armed THEN @ ELSE @ + 1,
               !.armed = @ \/ tr.absent + 1 >= DisappearFrames]

\* A miss never gives up a place; enough of them in a row arm the target again.
Miss(tr) ==
    LET enough == tr.absent + 1 >= DisappearFrames
    IN  [tr EXCEPT !.hits = IF tr.roi = None THEN 0 ELSE @,
                   !.absent = CASE tr.armed -> @ [] ~tr.armed /\ enough -> 0
                                [] OTHER -> @ + 1,
                   !.armed = @ \/ enough]

-----------------------------------------------------------------------------
(* engine:process(frame)                                                   *)

\* The histories over an action: clicks, and frames gone since the last click.
Clicks(tr, outcome) == Due(tr) /\ outcome = "done"

Count(c, tr, outcome) ==
    IF /\ Rearm = "disappear"
       /\ Clicks(tr, outcome) \/ (c > 0 /\ Due(tr) /\ outcome # "off")
    THEN c + 1 ELSE c

Since(g, tr, outcome) == IF Clicks(tr, outcome) THEN 0 ELSE g

\* The track and the histories when the target is to be looked for, after the
\* action that was due before.
Acted(f) == Finish(Begin(f), f.first)
ClicksBefore(f) == Count(IF Resized(f) THEN 0 ELSE clicks, Begin(f), f.first)
GoneBefore(f) == Since(IF Resized(f) THEN 0 ELSE gone, Begin(f), f.first)
StreakBefore(f) == IF Resized(f) THEN NoStreak ELSE streak

\* The frame ends with another look at what is due.
End(f, tr, c, g) ==
    /\ track' = Finish(tr, f.second)
    /\ clicks' = Count(c, tr, f.second)
    /\ gone' = Since(g, tr, f.second)
    /\ screen' = f.screen
    /\ UNCHANGED others

\* Nothing is looked for when the target is off and in the wait after an action.
Skips(f) ==
    /\ ~f.active \/ Acted(f).wait > 0
    /\ End(f, Acted(f), ClicksBefore(f), GoneBefore(f))
    /\ streak' = StreakBefore(f)
    /\ UNCHANGED <<states, file, learned>>

Looks(f) == f.active /\ Acted(f).wait = 0

NotFound(f) ==
    LET now == Min({GoneBefore(f) + 1, DisappearFrames})
    IN  /\ Looks(f)
        /\ End(f, Miss(Acted(f)), IF now = DisappearFrames THEN 0 ELSE ClicksBefore(f), now)
        /\ streak' = NoStreak
        /\ UNCHANGED <<states, file, learned>>

\* save_persistent_states: the engine writes its whole table.
\* That may fail.
Save(record) ==
    /\ states' = record
    /\ file' \in {states', file}

\* With a place known, the target is only looked for there.  A place just learned
\* is saved, one just forgotten is removed; then a click without delay is done.
Found(f, m) ==
    LET before == Acted(f)
        after == Hit(before, m)
        n == IF StreakBefore(f).match = m THEN StreakBefore(f).n + 1 ELSE 1
    IN  /\ Looks(f)
        /\ before.roi \in {None, m.place}
        /\ End(f, after, ClicksBefore(f), 0)
        /\ \/ before.roi = None /\ after.roi # None
              /\ Save([screen |-> f.screen, place |-> after.roi])
           \/ before.roi # None /\ Forgets(before, m) /\ Save(None)
           \/ ~Forgets(before, m) /\ before.roi = after.roi /\ UNCHANGED <<states, file>>
           \/ before.roi = None /\ after.roi = None /\ UNCHANGED <<states, file>>
        /\ streak' = [match |-> m, n |-> Min({n, StableHits})]
        /\ learned' = learned \cup
              {<<f.screen, m.place>> : i \in IF n >= StableHits THEN {n} ELSE {}}

-----------------------------------------------------------------------------
(* Around the engine.                                                      *)

\* The other engine learns or forgets a place of its own, and writes its table.
OtherSaves ==
    /\ file' = others
    /\ UNCHANGED <<policyVars, states, others, history>>

\* The script ends and is started again: every engine reads the state file.
Restart ==
    /\ track' = New
    /\ screen' = None
    /\ states' = file /\ others' = file
    /\ clicks' = 0 /\ gone' = 0
    /\ streak' = NoStreak
    /\ UNCHANGED <<file, learned>>

\* Time only counts for a track that has something to wait for, and an outcome for
\* one that has an action due.
Process(f) ==
    /\ f.elapsed > 0 => track.due > 0 \/ track.wait > 0
    /\ f.first = "off" \/ Due(Begin(f))
    /\ \/ Skips(f) \/ NotFound(f)
       \/ \E m \in Matches : Found(f, m)

Next == (\E f \in Frames : Process(f)) \/ OtherSaves \/ Restart

Spec == Init /\ [][Next]_vars

-----------------------------------------------------------------------------
(* Properties.                                                             *)

\* Types of the variables.
TypeOK ==
    /\ track \in [size : Sizes \cup {None}, place : Places \cup {None},
                  hits : 0..StableHits, roi : Places \cup {None}, armed : BOOLEAN,
                  absent : 0..DisappearFrames - 1, pending : BOOLEAN,
                  due : 0..Delay, wait : 0..Cooldown]
    /\ screen \in Screens \cup {None}
    /\ {states, others, file} \subseteq Entries
    /\ clicks \in Nat /\ gone \in 0..DisappearFrames
    /\ streak \in [match : Matches \cup {None}, n : 0..StableHits]
    /\ learned \subseteq Screens \X Places

\* LUA_API.md:69-71: with rearm = "disappear", once an action was reported as done
\* no other is even tried, however matches, misses, delays, waits and refusals
\* follow each other, before the target has been gone for DisappearFrames frames in
\* a row or the screen has changed.  Nothing is said of the actions before the one
\* that was done, which the engine takes to have failed: a tap among them that
\* timed out is performed all the same.
DoneIsLast == clicks <= 1

\* A place that restricts the search for good was found StableHits times in a row
\* on a screen of this size, in this run of the script or in an earlier one,
\* whatever the engines have written over each other's tables and whatever writes
\* have failed.
PlacesAreLearned ==
    /\ track.roi # None => <<screen, track.roi>> \in learned
    /\ \A entry \in {states, others, file} \ {None} :
          <<entry.screen, entry.place>> \in learned
=============================================================================
