----------------------------- MODULE Lifecycle -----------------------------
(***************************************************************************)
(* The life of the application process: signed updates (app_update.rs),    *)
(* the tray and the main window (background.rs), and the exit path         *)
(* (lib.rs, state.rs).                                                     *)
(*                                                                         *)
(* Checks and installs of updates take one operation lock; an install      *)
(* stops native work before the installer (Windows) or the restart (Linux, *)
(* macOS).  Quitting stops native work in a task of its own and exits when *)
(* it is done.  Closing the window hides it while the tray is on.  The     *)
(* update loop, the person's commands, settings changes and a quit         *)
(* interleave; the process may also die and start again.                   *)
(***************************************************************************)
EXTENDS Naturals, FiniteSets

CONSTANTS
  Version,     \* versions of the release feed
  Setter,      \* settings changes that run at the same time
  None,
  MaxStart,    \* starts of the process
  MaxFail,     \* failed saves, tray icons, checks, downloads and installs
  MaxOp        \* updates checked for or installed, and settings changed

VARIABLES
  up,          \* update state: phase, offer, auto, lock (the version to install, or "check")
  loop,        \* the automatic check loop: sleeping, checking or gone
  wake,        \* a stored wake-up of the loop
  host,        \* the platform, the shutdown's started and complete flags, whether the process left
  native,      \* native runtimes and script steps are running
  stop,        \* tasks that stop native work: of a quit, of an install
  win, tray,   \* the main window and the tray icon
  keep, saved, \* the saved tray preference, the saved automatic check
  setter,      \* settings changes in progress
  crossed,     \* the tray went away while the window was being hidden, or two changes crossed
  starts, fails, ops

vars == <<up, loop, wake, host, native, stop, win, tray, keep, saved, setter, crossed, starts, fails, ops>>

Windows == host.windows   \* whose installer replaces the running program
Running == host.left = "no"
Fail == fails < MaxFail /\ fails' = fails + 1
Op == ops < MaxOp /\ ops' = ops + 1
NoSetter == [pc |-> "idle", on |-> TRUE]

----------------------------------------------------------------------------
(* Updates.                                                                *)

\* What check and install_version refuse.
Free == Running /\ ~host.started /\ up.lock = None /\ up.phase = "idle"

Checking(by) == up' = [up EXCEPT !.phase = "checking", !.lock = by]

\* A check the person asked for.
Check ==
  /\ Free /\ Op
  /\ Checking("person")
  /\ UNCHANGED <<loop, wake, host, native, stop, win, tray, keep, saved, setter, crossed, starts, fails>>

\* The loop wakes by its timer or by the stored wake-up.
LoopWakes(timer) ==
  /\ Running /\ loop = "sleeping"
  /\ timer \/ wake
  /\ wake' = IF timer THEN wake ELSE FALSE
  /\ IF host.started THEN loop' = "gone" /\ UNCHANGED <<up, ops>>
     ELSE IF up.auto /\ Free
     THEN Op /\ Checking("loop") /\ loop' = "checking"
     ELSE UNCHANGED <<loop, up, ops>>
  /\ UNCHANGED <<host, native, stop, win, tray, keep, saved, setter, crossed, starts, fails>>

CheckResult(offer) == [up EXCEPT !.phase = "idle", !.offer = offer, !.lock = None]

CheckEnds ==
  /\ Running /\ up.phase = "checking"
  /\ loop' = IF up.lock = "loop" THEN "sleeping" ELSE loop
  /\ \/ \E v \in Version \cup {None} : up' = CheckResult(v) /\ UNCHANGED fails
     \/ Fail /\ up' = CheckResult(up.offer)
  /\ UNCHANGED <<wake, host, native, stop, win, tray, keep, saved, setter, crossed, starts, ops>>


Installable(v) == Free /\ up.offer = v

\* install_version for the version the person confirmed.
Install(v) ==
  /\ Installable(v) /\ Op
  /\ up' = [up EXCEPT !.phase = "downloading", !.lock = v]
  /\ UNCHANGED <<loop, wake, host, native, stop, win, tray, keep, saved, setter, crossed, starts, fails>>

\* download_verified.
Downloaded ==
  /\ Running /\ up.phase = "downloading"
  /\ \/ up' = [up EXCEPT !.phase = "installing"] /\ UNCHANGED fails
     \/ Fail /\ up' = [up EXCEPT !.phase = "idle", !.lock = None]
  /\ stop' = IF up'.phase = "installing" THEN [stop EXCEPT !.install = IF Windows THEN "ask" ELSE "ready"] ELSE stop
  /\ UNCHANGED <<loop, wake, host, native, win, tray, keep, saved, setter, crossed, starts, ops>>

\* stop_native_runtimes: nothing to do when a shutdown has begun.
StopAsked ==
  /\ Running /\ stop.install = "ask"
  /\ IF host.started
     THEN stop' = [stop EXCEPT !.install = "ready"] /\ UNCHANGED host
     ELSE stop' = [stop EXCEPT !.install = "stopping"] /\ host' = [host EXCEPT !.started = TRUE]
  /\ UNCHANGED <<up, loop, wake, native, win, tray, keep, saved, setter, crossed, starts, fails, ops>>

InstallStops ==
  /\ Running /\ stop.install = "stopping"
  /\ native' = FALSE
  /\ host' = [host EXCEPT !.complete = TRUE]
  /\ stop' = [stop EXCEPT !.install = "ready"]
  /\ UNCHANGED <<up, loop, wake, win, tray, keep, saved, setter, crossed, starts, fails, ops>>

\* install_downloaded: the installer ends the process (Windows), or the files are
\* replaced and a task stops native work and asks for a restart.
InstallRuns ==
  /\ Running /\ stop.install = "ready" /\ up.phase = "installing"
  /\ \/ /\ Windows
        /\ host' = [host EXCEPT !.left = "install"]
        /\ UNCHANGED <<up, stop, win, fails>>
     \/ /\ Windows /\ Fail
        /\ up' = [up EXCEPT !.phase = "restart-required", !.lock = None]
        /\ win' = IF win = "gone" THEN "gone" ELSE "shown"
        /\ stop' = [stop EXCEPT !.install = "none"]
        /\ UNCHANGED host
     \/ /\ ~Windows
        /\ up' = [up EXCEPT !.phase = "restarting", !.lock = None]
        /\ stop' = [stop EXCEPT !.install = "ask"]
        /\ UNCHANGED <<host, win, fails>>
     \/ /\ ~Windows /\ Fail
        /\ up' = [up EXCEPT !.phase = "idle", !.lock = None]
        /\ stop' = [stop EXCEPT !.install = "none"]
        /\ UNCHANGED <<host, win>>
  /\ UNCHANGED <<loop, wake, native, tray, keep, saved, setter, crossed, starts, ops>>

\* set_auto_check.
SetAuto(on) ==
  /\ Running /\ Op
  /\ \/ on # up.auto /\ up' = [up EXCEPT !.auto = on] /\ saved' = on /\ UNCHANGED fails
     \/ on = up.auto /\ UNCHANGED <<up, saved, fails>>
     \/ on # up.auto /\ Fail /\ UNCHANGED <<up, saved>>
  /\ wake' = (wake \/ (on /\ up'.auto))
  /\ UNCHANGED <<loop, host, native, stop, win, tray, keep, setter, crossed, starts>>

----------------------------------------------------------------------------
(* Leaving.                                                                *)

\* RunEvent::ExitRequested: held back until the shutdown is complete; the first
\* request begins it.
ExitRequested ==
  IF host.complete THEN host' = [host EXCEPT !.left = "quit"] /\ UNCHANGED stop
  ELSE IF ~host.started
  THEN host' = [host EXCEPT !.started = TRUE] /\ stop' = [stop EXCEPT !.quit = "stopping"]
  ELSE UNCHANGED <<host, stop>>

\* shutdown_application_runtimes of a quit, then app.exit.
QuitStops ==
  /\ Running /\ stop.quit = "stopping"
  /\ native' = FALSE
  /\ host' = [host EXCEPT !.complete = TRUE]
  /\ stop' = [stop EXCEPT !.quit = "exit"]
  /\ UNCHANGED <<up, loop, wake, win, tray, keep, saved, setter, crossed, starts, fails, ops>>

QuitExits ==
  /\ Running /\ stop.quit = "exit"
  /\ ExitRequested
  /\ UNCHANGED <<up, loop, wake, native, win, tray, keep, saved, setter, crossed, starts, fails, ops>>

\* The restart after an install (Linux, macOS) or after a failed one (Windows).
Restart ==
  /\ Running
  /\ \/ ~Windows /\ up.phase = "restarting" /\ stop.install = "ready"
     \/ up.phase = "restart-required"
  /\ IF up.phase = "restarting" /\ ~host.complete
     THEN stop' = [stop EXCEPT !.install = "none"] /\ UNCHANGED host
     ELSE ExitRequested
  /\ UNCHANGED <<up, loop, wake, native, win, tray, keep, saved, setter, crossed, starts, fails, ops>>

\* Agents, runs and scripts begin and end; new work is refused once a shutdown began.
NativeWork ==
  /\ Running
  /\ native' = ~native
  /\ ~native => ~host.started
  /\ UNCHANGED <<up, loop, wake, host, stop, win, tray, keep, saved, setter, crossed, starts, fails, ops>>

----------------------------------------------------------------------------
(* The window and the tray.                                                *)

\* on_window_event.
Hides == tray /\ ~host.started

TurnsOff(s) == ~setter[s].on

CloseWindow ==
  /\ Running /\ win = "shown"
  /\ IF Hides
     THEN win' = "hidden" /\ UNCHANGED <<host, stop>>
     ELSE win' = "gone" /\ ExitRequested
  /\ crossed' = (crossed \/ (Hides /\ \E s \in Setter : TurnsOff(s)))
  /\ UNCHANGED <<up, loop, wake, native, tray, keep, saved, setter, starts, fails, ops>>

\* A second launch, or the tray icon.
ShowWindow ==
  /\ Running /\ win = "hidden"
  /\ win' = "shown"
  /\ UNCHANGED <<up, loop, wake, host, native, stop, tray, keep, saved, setter, crossed, starts, fails, ops>>

TrayQuit ==
  /\ Running /\ tray
  /\ ExitRequested
  /\ UNCHANGED <<up, loop, wake, native, win, tray, keep, saved, setter, crossed, starts, fails, ops>>

\* Controller::update: the tray is shown before the preference is saved, and
\* removed after.
SetKeep(s, on) ==
  /\ Running /\ win = "shown" /\ setter[s] = NoSetter /\ Op
  /\ setter' = [setter EXCEPT ![s] = [pc |-> IF on THEN "show" ELSE "save", on |-> on]]
  /\ crossed' = (crossed \/ \E r \in Setter \ {s} : setter[r] # NoSetter)
  /\ UNCHANGED <<up, loop, wake, host, native, stop, win, tray, keep, saved, starts, fails>>

ShowTray(s) ==
  /\ Running /\ setter[s].pc = "show"
  /\ \/ tray' = TRUE /\ setter' = [setter EXCEPT ![s].pc = "save"] /\ UNCHANGED fails
     \/ Fail /\ setter' = [setter EXCEPT ![s] = NoSetter] /\ UNCHANGED tray
  /\ UNCHANGED <<up, loop, wake, host, native, stop, win, keep, saved, crossed, starts, ops>>

\* What remains to be done after a save.
AfterSave(on) == IF on THEN NoSetter ELSE [pc |-> "remove", on |-> FALSE]

SaveKeep(s) ==
  /\ Running /\ setter[s].pc = "save"
  /\ \/ /\ keep' = setter[s].on
        /\ setter' = [setter EXCEPT ![s] = AfterSave(setter[s].on)]
        /\ UNCHANGED <<fails, crossed>>
     \/ /\ Fail
        /\ setter' = [setter EXCEPT ![s] = NoSetter]
        /\ crossed' = (crossed \/ setter[s].on)
        /\ UNCHANGED keep
  /\ UNCHANGED <<up, loop, wake, host, native, stop, win, tray, saved, starts, ops>>

RemoveTray(s) ==
  /\ Running /\ setter[s].pc = "remove"
  /\ tray' = FALSE
  /\ setter' = [setter EXCEPT ![s] = NoSetter]
  /\ UNCHANGED <<up, loop, wake, host, native, stop, win, keep, saved, crossed, starts, fails, ops>>

----------------------------------------------------------------------------
\* setup: the tray comes back when it was kept, and a start at sign-in stays in it.
Fresh(shown, hidden) ==
  /\ up' = [phase |-> "idle", offer |-> None, auto |-> saved, lock |-> None]
  /\ loop' = "sleeping" /\ wake' = FALSE
  /\ host' = [host EXCEPT !.started = FALSE, !.complete = FALSE, !.left = "no"]
  /\ native' = FALSE
  /\ stop' = [quit |-> "none", install |-> "none"]
  /\ tray' = (keep /\ shown)
  /\ win' = IF keep /\ shown /\ hidden THEN "hidden" ELSE "shown"
  /\ setter' = [s \in Setter |-> NoSetter]
  /\ crossed' = ~shown

\* The process left or died, and is started again.
Start(shown, hidden) ==
  /\ starts < MaxStart /\ starts' = starts + 1
  /\ shown \/ keep
  /\ IF shown THEN UNCHANGED fails ELSE Fail
  /\ Fresh(shown, hidden)
  /\ UNCHANGED <<keep, saved, ops>>

Init ==
  /\ up = [phase |-> "idle", offer |-> None, auto |-> FALSE, lock |-> None]
  /\ loop = "sleeping" /\ wake = FALSE
  /\ host \in [started : {FALSE}, complete : {FALSE}, left : {"no"}, windows : BOOLEAN]
  /\ native = FALSE
  /\ stop = [quit |-> "none", install |-> "none"]
  /\ win = "shown" /\ tray = FALSE
  /\ keep = FALSE /\ saved = FALSE
  /\ setter = [s \in Setter |-> NoSetter]
  /\ crossed = FALSE
  /\ starts = 0 /\ fails = 0 /\ ops = 0

Next ==
  \/ Check \/ \E timer \in BOOLEAN : LoopWakes(timer)
  \/ CheckEnds \/ \E v \in Version : Install(v)
  \/ Downloaded \/ StopAsked \/ InstallStops \/ InstallRuns
  \/ \E on \in BOOLEAN : SetAuto(on)
  \/ QuitStops \/ QuitExits \/ Restart \/ NativeWork
  \/ CloseWindow \/ ShowWindow \/ TrayQuit
  \/ \E s \in Setter : (\E on \in BOOLEAN : SetKeep(s, on)) \/ ShowTray(s) \/ SaveKeep(s) \/ RemoveTray(s)
  \/ \E shown, hidden \in BOOLEAN : Start(shown, hidden)

Spec == Init /\ [][Next]_vars

\* Every task the host has spawned goes on while the process runs.
FairSpec ==
  /\ Spec
  /\ WF_vars(QuitStops) /\ WF_vars(QuitExits)
  /\ WF_vars(StopAsked) /\ WF_vars(InstallStops) /\ WF_vars(InstallRuns) /\ WF_vars(Restart)

----------------------------------------------------------------------------
\* The update state has its shape, and its phase agrees with its lock.
TypeOK ==
  /\ up.phase \in {"idle", "checking", "downloading", "installing", "restarting", "restart-required"}
  /\ up.offer \in Version \cup {None} /\ up.auto \in BOOLEAN
  /\ up.lock # None <=> up.phase \in {"checking", "downloading", "installing"}
  /\ loop \in {"sleeping", "checking", "gone"} /\ wake \in BOOLEAN
  /\ win \in {"shown", "hidden", "gone"} /\ tray \in BOOLEAN /\ keep \in BOOLEAN
  /\ host.complete => host.started

\* What is downloaded and installed is the version the person confirmed, and it
\* stays the offered one: no check replaces the offer meanwhile.
InstallsConfirmed ==
  up.phase \in {"downloading", "installing"} => up.lock \in Version /\ up.offer = up.lock

\* PiUI leaves by its exit path only after native work has stopped.
QuitStopsWork == host.left = "quit" => ~native /\ host.complete

\* The installer runs only after native work has stopped.
StopsBeforeInstall == host.left = "install" => ~native

\* A hidden window can be brought back from the tray, except when the tray went
\* away just as the window was hidden or settings changes crossed.
HiddenHasTray == Running /\ win = "hidden" /\ ~crossed => tray

\* Once the settings changes are done, the tray is there exactly when it is saved
\* as kept, with the same exceptions.
TrayAsSaved ==
  Running /\ ~crossed /\ (\A s \in Setter : setter[s] = NoSetter) => tray = keep

\* A process whose window was closed for good is leaving, except after an install
\* that failed once native work had stopped.
NoWindowLeaves ==
  Running /\ win = "gone" => host.started /\ (up.phase = "restart-required" \/ stop.quit # "none" \/ stop.install # "none")

\* A shutdown that has begun ends: the process leaves or, after a failed install,
\* asks for a restart.
ShutdownEnds == host.started ~> (host.left # "no" \/ up.phase = "restart-required" \/ ~host.started)
=============================================================================
