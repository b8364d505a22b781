------------------------------ MODULE GuiHost ------------------------------
(***************************************************************************)
(* The windows of a program (evaluator/namespaces_gui.rs).  The program's  *)
(* thread draws and asks; the process's first thread owns the windows,     *)
(* because the window library wants it so.  They share SharedInner under   *)
(* one mutex and wait for each other on one condition variable.  An action *)
(* is what a thread does in one critical section; where a section of one   *)
(* thread can only meet the other thread blocked, two are taken as one.    *)
(***************************************************************************)
EXTENDS Integers, Sequences, FiniteSets

CONSTANTS Habits,       \* what the program and its user do: one is chosen per run
          MaxWindow,    \* bound: ids of the windows of Gui.openWindow
          MaxKeys,      \* bound: keys the user presses
          MaxOpens,     \* bound: windows of Gui.open, one after the other
          MaxGuiCalls   \* bound: frames, dialogs and waits of the program

Windows == 0 .. MaxWindow       \* 0 is the window of Gui.open
Extras == Windows \ {0}

VARIABLES habit,
          shared,       \* id |-> what the threads share of the window
          cmds,         \* commands to the window thread, which takes all at once
          epoch,        \* input_epoch
          dialog,       \* the file dialog's handshake
          over,         \* interp_done
          script,       \* the program's thread
          host,         \* the window thread
          live,         \* windows that exist
          asked,        \* windows whose close_requested is set
          last,         \* id |-> last_present
          keys,         \* id |-> key presses not yet handed over
          typed,        \* ghost: id |-> key presses of the window's life
          given,        \* ghost: id |-> key presses the program was given
          wanted        \* ghost: windows somebody closed since they opened
guiVars == <<habit, shared, cmds, epoch, dialog, over, script, host, live, asked, last, keys,
             typed, given, wanted>>
threadVars == <<live, asked, last, keys>>
ghostVars == <<typed, given, wanted>>

\* SharedInner's fields for one window, ExtraShared.
Window == [present |-> 0, done |-> 0, ready |-> FALSE, open |-> FALSE, closing |-> FALSE,
           failed |-> FALSE, input |-> <<>>]
NoCall == [op |-> "none"]
Command(name, w) == [cmd |-> name, win |-> w]
Sent(name) == {w \in Windows : Command(name, w) \in cmds}
Opens == {c \in cmds : c.cmd = "Open"}
IsOpen(w) == w \in DOMAIN shared /\ shared[w].open /\ ~shared[w].closing

Init == /\ habit \in Habits
        /\ shared = [w \in {0} |-> Window]
        /\ cmds = {} /\ epoch = 0 /\ over = FALSE
        /\ dialog = [seq |-> 0, done |-> 0, result |-> 0]
        /\ script = [call |-> NoCall, has |-> FALSE, opened |-> 0, known |-> {}, next |-> 1,
                     calls |-> 0]
        /\ host = [pc |-> "idle", session |-> FALSE, opening |-> {}, pending |-> FALSE,
                   loop |-> FALSE, show |-> 0, back |-> "idle"]
        /\ live = {} /\ asked = {} /\ wanted = {}
        /\ last = [w \in Windows |-> 0]
        /\ keys = [w \in Windows |-> <<>>] /\ typed = keys /\ given = keys

-----------------------------------------------------------------------------
(* The program's thread: a call begins when the script makes it and ends    *)
(* when what it waits for is there.                                         *)
Calls(call, n) == /\ script.call = NoCall /\ ~over /\ script.calls + n <= MaxGuiCalls
                  /\ script' = [script EXCEPT !.call = call, !.calls = @ + n]
Returns(state) == script' = [state EXCEPT !.call = NoCall]

\* Gui.open, by a program that has no window or saw that its window is closed.
Open ==
  /\ ~script.has \/ ~IsOpen(0)
  /\ script.opened < MaxOpens /\ (script.opened > 0 => "reopen" \in habit)
  /\ Calls([op |-> "open"], 0)
  /\ shared' = [shared EXCEPT ![0].failed = FALSE, ![0].ready = FALSE, ![0].closing = FALSE]
  /\ cmds' = cmds \cup {Command("Open", 0)}
  /\ UNCHANGED <<habit, epoch, dialog, over, host, threadVars, ghostVars>>
OpenReturns ==
  /\ script.call.op = "open"
  /\ \/ /\ shared[0].failed
        /\ Returns(script)
     \/ /\ ~shared[0].failed /\ shared[0].ready
        /\ Returns([script EXCEPT !.has = TRUE, !.opened = @ + 1, !.known = {}, !.next = 1])
  /\ UNCHANGED <<habit, shared, cmds, epoch, dialog, over, host, threadVars, ghostVars>>

\* Gui.openWindow: an entry of its own, then the command.
OpenWindow ==
  /\ "windows" \in habit /\ script.has /\ script.next \in Extras
  /\ Calls([op |-> "openWindow", win |-> script.next], 0)
  /\ shared' = [w \in DOMAIN shared \cup {script.next} |->
                  IF w = script.next THEN Window ELSE shared[w]]
  /\ cmds' = cmds \cup {Command("OpenExtra", script.next)}
  /\ UNCHANGED <<habit, epoch, dialog, over, host, threadVars, ghostVars>>
OpenWindowReturns ==
  /\ script.call.op = "openWindow"
  /\ LET w == script.call.win IN
     \/ /\ shared[w].failed
        /\ shared' = [v \in DOMAIN shared \ {w} |-> shared[v]]
        /\ Returns([script EXCEPT !.next = w + 1])
     \/ /\ ~shared[w].failed /\ shared[w].ready
        /\ Returns([script EXCEPT !.next = w + 1, !.known = @ \cup {w}])
        /\ UNCHANGED shared
  /\ UNCHANGED <<habit, cmds, epoch, dialog, over, host, threadVars, ghostVars>>

\* present and present_extra: ask for a frame, wait until it was shown or the
\* window closes, take the input that came with it.
Present(w) ==
  /\ script.has /\ w \in script.known \cup {0} /\ w \in DOMAIN shared
  /\ Calls([op |-> "present", win |-> w, want |-> shared[w].present + 1], 1)
  /\ shared' = [shared EXCEPT ![w].present = @ + 1]
  /\ UNCHANGED <<habit, cmds, epoch, dialog, over, host, threadVars, ghostVars>>
Shown(call) == shared[call.win].done >= call.want
\* mutant: a closed window does not end the wait.
PresentOverShown(call) == Shown(call)
PresentOver(call) == Shown(call) \/ ~IsOpen(call.win)
PresentReturns ==
  /\ script.call.op = "present"
  /\ PresentOver(script.call)
  /\ LET w == script.call.win IN
       given' = IF IsOpen(w) THEN [given EXCEPT ![w] = @ \o shared[w].input] ELSE given
  /\ Returns(script)
  /\ UNCHANGED <<habit, shared, cmds, epoch, dialog, over, host, threadVars, typed, wanted>>

\* Gui.idleWait: until there is input, the window closes or the time is over.
IdleWait ==
  /\ "idle" \in habit
  /\ Calls([op |-> "idle", base |-> epoch], 1)
  /\ UNCHANGED <<habit, shared, cmds, epoch, dialog, over, host, threadVars, ghostVars>>
IdleReturns ==
  /\ script.call.op = "idle"
  /\ epoch # script.call.base \/ ~IsOpen(0)
  /\ Returns(script)
  /\ UNCHANGED <<habit, shared, cmds, epoch, dialog, over, host, threadVars, ghostVars>>
IdleTimesOut ==
  /\ script.call.op = "idle"
  /\ Returns(script)
  /\ UNCHANGED <<habit, shared, cmds, epoch, dialog, over, host, threadVars, ghostVars>>

\* gui_file_dialog: the sequence number makes the answer this call's.
AskFile ==
  /\ "dialog" \in habit /\ script.has
  /\ Calls([op |-> "dialog", want |-> dialog.seq + 1], 1)
  /\ dialog' = [dialog EXCEPT !.seq = @ + 1, !.result = 0]
  /\ cmds' = cmds \cup {Command("FileDialog", 0)}
  /\ UNCHANGED <<habit, shared, epoch, over, host, threadVars, ghostVars>>
FileReturns ==
  /\ script.call.op = "dialog"
  /\ dialog.done >= script.call.want \/ ~IsOpen(0)
  /\ dialog' = [dialog EXCEPT !.result = 0]
  /\ Returns(script)
  /\ UNCHANGED <<habit, shared, cmds, epoch, over, host, threadVars, ghostVars>>

\* Gui.close and Gui.closeWindow only ask.
Close ==
  /\ "close" \in habit /\ script.has
  /\ script.call = NoCall /\ ~over
  /\ script' = [script EXCEPT !.has = FALSE, !.known = {}]
  /\ cmds' = cmds \cup {Command("Close", 0)}
  /\ wanted' = wanted \cup {0}
  /\ UNCHANGED <<habit, shared, epoch, dialog, over, host, threadVars, typed, given>>
CloseWindow(w) ==
  /\ "windows" \in habit /\ w \in script.known
  /\ script.call = NoCall /\ ~over
  /\ script' = [script EXCEPT !.known = @ \ {w}]
  /\ shared' = [v \in DOMAIN shared |->
                  IF v = w THEN [shared[v] EXCEPT !.closing = TRUE] ELSE shared[v]]
  /\ cmds' = cmds \cup {Command("CloseExtra", w)}
  /\ wanted' = wanted \cup {w}
  /\ UNCHANGED <<habit, epoch, dialog, over, host, threadVars, typed, given>>

\* signal_interp_done: the program ended, or panicked.
Ends == /\ script.call = NoCall /\ ~over
        /\ over' = TRUE
        /\ UNCHANGED <<habit, shared, cmds, epoch, dialog, script, host, threadVars, ghostVars>>

-----------------------------------------------------------------------------
(* The window thread.                                                       *)

\* gui_host_main_loop, without a window: leave, start a session, or discard
\* the commands nobody can serve.
Leave == /\ host.pc = "idle" /\ over
         /\ host' = [host EXCEPT !.pc = "ended"]
         /\ UNCHANGED <<habit, shared, cmds, epoch, dialog, over, script, threadVars, ghostVars>>
StartSession ==
  /\ host.pc = "idle" /\ ~over /\ Opens # {}
  /\ \/ /\ host' = [host EXCEPT !.pc = "pump", !.session = TRUE, !.loop = TRUE]
        /\ asked' = asked \ {0}
        /\ last' = [last EXCEPT ![0] = 0]
        /\ shared' = [shared EXCEPT ![0].ready = FALSE, ![0].done = 0, ![0].present = 0]
        /\ UNCHANGED cmds
     \/ /\ ~host.loop                               \* EventLoop::new fails
        /\ shared' = [shared EXCEPT ![0].failed = TRUE]
        /\ cmds' = {}
        /\ UNCHANGED <<host, asked, last>>
  /\ UNCHANGED <<habit, epoch, dialog, over, script, live, keys, ghostVars>>
Discard ==
  /\ host.pc = "idle" /\ ~over /\ Opens = {} /\ cmds # {}
  /\ cmds' = {}
  /\ UNCHANGED <<habit, shared, epoch, dialog, over, script, host, threadVars, ghostVars>>

\* window_event, for what happens to a window while events are pumped: any
\* input, of which key presses are counted, and the request to close.
Pumping == host.pc \in {"pump", "pumped"}
UserTypes(w) ==
  /\ Pumping /\ "types" \in habit /\ w \in live
  /\ Cardinality(UNION {{v} \X DOMAIN typed[v] : v \in Windows}) < MaxKeys
  /\ LET k == Len(typed[w]) + 1 IN
       /\ keys' = [keys EXCEPT ![w] = Append(@, k)]
       /\ typed' = [typed EXCEPT ![w] = Append(@, k)]
  /\ host' = [host EXCEPT !.pending = TRUE]
  /\ UNCHANGED <<habit, shared, cmds, epoch, dialog, over, script, live, asked, last, given, wanted>>
UserCloses(w) ==
  /\ Pumping /\ w \in live \ asked
  /\ (IF w = 0 THEN "userCloses" ELSE "windows") \in habit
  /\ asked' = asked \cup {w}
  /\ wanted' = wanted \cup {w}
  /\ host' = [host EXCEPT !.pending = @ \/ w # 0]
  /\ UNCHANGED <<habit, shared, cmds, epoch, dialog, over, script, live, last, keys, typed, given>>

\* ensure_window and ensure_extra_windows, before the thread waits for events.
Born(w, failed) ==
  IF failed THEN [shared[w] EXCEPT !.failed = TRUE]
  ELSE [shared[w] EXCEPT !.ready = TRUE, !.open = TRUE, !.closing = FALSE]
AboutToWait ==
  /\ host.pc = "pump"
  /\ \E broken \in BOOLEAN :
       LET first == {w \in {0} : 0 \notin live /\ Opens # {}}
           born == first \cup host.opening
           new == IF broken THEN {} ELSE born
       IN  /\ broken => born # {}
           /\ shared' = [w \in DOMAIN shared |-> IF w \in born THEN Born(w, broken) ELSE shared[w]]
           /\ cmds' = IF 0 \in born THEN cmds \ Opens ELSE cmds
           /\ live' = live \cup new
           /\ last' = [w \in Windows |-> IF w \in new \ {0} THEN 0 ELSE last[w]]
           /\ keys' = [w \in Windows |-> IF w \in new \ {0} THEN <<>> ELSE keys[w]]
           /\ asked' = asked \ (new \ {0})
           /\ typed' = [w \in Windows |-> IF w \in new THEN <<>> ELSE typed[w]]
           /\ given' = [w \in Windows |-> IF w \in new THEN <<>> ELSE given[w]]
           /\ wanted' = wanted \ new
  /\ host' = [host EXCEPT !.pc = "pumped", !.opening = {}]
  /\ UNCHANGED <<habit, epoch, dialog, over, script>>

\* service: the commands, then the first window's frame, then its closing,
\* then the others; a session that ended takes every window with it.
Serve(s, w) == [s EXCEPT !.done = s.present, !.input = keys[w]]
Shut(s) == [s EXCEPT !.open = FALSE, !.closing = TRUE]
ShutExtra(s) == [Shut(s) EXCEPT !.done = s.present]
Service(pc) ==
  LET closing == asked \cup Sent("Close") \cup (Sent("CloseExtra") \cap live)
      session == host.session /\ 0 \notin closing /\ ~over
      ended == {w \in live \ {0} : \/ w \in closing \/ ~session
                                   \/ w \in DOMAIN shared /\ shared[w].closing}
      kept == {w \in live \ {0} : w \in DOMAIN shared} \ ended
      framed == {w \in kept \cup {0} : shared[w].present > last[w]}
      after(w) == IF w \in framed THEN Serve(shared[w], w) ELSE shared[w]
  IN  /\ cmds' = Opens
      /\ epoch' = IF host.pending THEN epoch + 1 ELSE epoch
      /\ shared' = [w \in DOMAIN shared |->
                      IF w \in ended THEN ShutExtra(shared[w])
                      ELSE IF w = 0 /\ (0 \in closing \/ over) THEN Shut(after(0))
                      ELSE after(w)]
      /\ last' = [w \in Windows |-> IF w \in framed THEN shared[w].present ELSE last[w]]
      /\ keys' = [w \in Windows |-> IF w \in framed THEN <<>> ELSE keys[w]]
      /\ live' = IF session THEN kept \cup (live \cap {0}) ELSE {}
      /\ asked' = closing \cap live'
      /\ host' = [host EXCEPT
                    !.session = session, !.pending = FALSE,
                    !.opening = IF session THEN @ \cup Sent("OpenExtra") ELSE {},
                    !.show = IF Sent("FileDialog") # {} THEN dialog.seq ELSE 0,
                    !.back = pc,
                    !.pc = IF Sent("FileDialog") # {} THEN "dialog" ELSE pc]
      /\ UNCHANGED <<habit, dialog, over, script, ghostVars>>

\* A redraw is served inside the pump (a resize too: to these threads it is a
\* redraw after an event); every pump ends in a service.
Redraw == Pumping /\ "redraw" \in habit /\ 0 \in live /\ Service(host.pc)
PumpReturns == host.pc = "pumped" /\ Service("check")
\* The dialog runs outside the lock, until the user answers it.
UserAnswers ==
  /\ host.pc = "dialog"
  /\ dialog' = [dialog EXCEPT !.done = host.show, !.result = host.show]
  /\ host' = [host EXCEPT !.pc = host.back, !.show = 0]
  /\ UNCHANGED <<habit, shared, cmds, epoch, over, script, threadVars, ghostVars>>
\* A session whose window could not be made ends too.  The limit of 250 pumps
\* without a window (namespaces_gui.rs:3105) is never met: a session begins with
\* an Open to serve, and its first about_to_wait makes the window or fails.
Check ==
  /\ host.pc = "check"
  /\ LET session == host.session /\ ~(0 \notin live /\ shared[0].failed) IN
       host' = [host EXCEPT !.session = session, !.pc = IF session THEN "pump" ELSE "idle"]
  /\ UNCHANGED <<habit, shared, cmds, epoch, dialog, over, script, threadVars, ghostVars>>

-----------------------------------------------------------------------------
Return == OpenReturns \/ OpenWindowReturns \/ PresentReturns \/ IdleReturns \/ FileReturns
HostStep == Leave \/ StartSession \/ Discard \/ AboutToWait \/ PumpReturns \/ UserAnswers \/ Check
Next ==
  \/ Open \/ OpenWindow \/ (\E w \in Windows : Present(w)) \/ IdleWait \/ AskFile
  \/ Close \/ (\E w \in Extras : CloseWindow(w)) \/ Ends
  \/ Return \/ IdleTimesOut
  \/ (\E w \in Windows : UserTypes(w) \/ UserCloses(w)) \/ Redraw
  \/ HostStep

\* Both threads run; a pump ends by its timeout, a dialog by its user.
Fairness == WF_guiVars(Return) /\ WF_guiVars(HostStep)
Spec == Init /\ [][Next]_guiVars /\ Fairness

-----------------------------------------------------------------------------
TypeOK ==
  /\ 0 \in DOMAIN shared /\ DOMAIN shared \subseteq Windows
  /\ live \subseteq Windows /\ asked \subseteq Windows
  /\ host.opening \subseteq Extras
  /\ host.pc \in {"idle", "pump", "pumped", "dialog", "check", "ended"}

\* While a window is open, what the user typed into it is what the program was
\* given, then what waits in an answered present, then what was not yet asked for.
Unread(w) ==
  IF script.call.op = "present" /\ script.call.win = w /\ Shown(script.call)
  THEN shared[w].input ELSE <<>>
InputComesOnce ==
  \A w \in script.known \cup {0} :
    script.has /\ IsOpen(w) => typed[w] = given[w] \o Unread(w) \o keys[w]

\* A window the program holds closes only when its user or the program closed
\* it, or the first window.  While Gui.open waits the program holds none.
ClosedByRequest ==
  \A w \in script.known \cup {0} :
    script.has /\ script.call.op # "open" /\ ~over /\ {0, w} \cap wanted = {} => IsOpen(w)

\* A file dialog answers with its own result while the window is open.
DialogAnswersItsCall ==
  [][FileReturns /\ IsOpen(0) => dialog.result = script.call.want]_guiVars

\* Every call returns; one that waits for input returns when there is some.
Due == script.call # NoCall /\ (script.call.op = "idle" => host.pending)
CallsReturn == Due ~> script.call = NoCall
\* When the program has ended the window thread leaves.
HostLeaves == over ~> host.pc = "ended"
=============================================================================
