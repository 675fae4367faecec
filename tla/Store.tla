------------------------------- MODULE Store -------------------------------
(***************************************************************************)
(* What survives a restart: the settings in memory, settings.json, the     *)
(* port assignments Plan adds to the former, and the single-instance lock  *)
(* that keeps a second process away from the file                          *)
(* (internal/config/settings.go, internal/ports/planner.go, and            *)
(* cmd/subrelay/main.go with lock_unix.go and lock_windows.go).            *)
(*                                                                         *)
(* Save is called after an edit and nowhere else; Plan changes the         *)
(* settings without calling it.  Save truncates the file and then writes   *)
(* it, holding the settings' lock; a process may end at any moment.        *)
(* A field holds the number of the edit that last set it, 0 its default;   *)
(* the hardware id, whose default is generated at launch, is apart.  One   *)
(* protocol's ports stand for both, since Planner treats them alike.       *)
(***************************************************************************)
EXTENDS Naturals

CONSTANTS
    Procs,      \* processes of the program the user may start
    Fields,     \* settings the user can edit: form fields and overrides
    UrlField,   \* the subscription URL, "" by default
    Ids,        \* hardware ids
    Tags,       \* tags of subscription nodes
    MaxPort,    \* maxPort
    MaxEdits,   \* bound on the number of edits
    NoProc,     \* nobody holds the lock
    Missing,    \* no settings: in memory, or no settings.json
    Torn        \* settings.json is empty or cut short: json.Unmarshal fails

NoPort == 0
Ports == 1..MaxPort
Contents == [edit : 0..MaxEdits, fields : [Fields -> 0..MaxEdits], hwid : Ids,
             ports : [Tags -> Ports \cup {NoPort}]]

ASSUME StoreAssumption ==
    /\ MaxPort \in Nat
    /\ MaxEdits \in Nat
    /\ Missing \notin Contents
    /\ Torn \notin Contents
    /\ Missing # Torn
    /\ NoProc \notin Procs
    /\ UrlField \in Fields

VARIABLES
    pc,       \* "down", "locked" until Load returns, or what the UI thread does
    lock,     \* the holder of the single-instance lock
    mem,      \* the settings of each process: the edits applied, the ports
    refreshing,  \* processes with a refresh that has read a URL to fetch
    disk,     \* settings.json
    saved,    \* history: the contents of the last Save that returned nil
    told      \* history: the first port ever recorded for a tag

vars == <<pc, lock, mem, refreshing, disk, saved, told>>

Init ==
    /\ pc = [p \in Procs |-> "down"]
    /\ lock = NoProc
    /\ mem = [p \in Procs |-> Missing]
    /\ refreshing = {}
    /\ disk = Missing
    /\ saved = Missing
    /\ told = [t \in Tags |-> NoPort]

Running(p) == pc[p] \in {"idle", "edited", "writing"}
Goto(p, l) == pc' = [pc EXCEPT ![p] = l]

-----------------------------------------------------------------------------
(* Start and end of a process                                              *)

\* Mutant: the lock is no longer held once the settings are loaded.
AcquireShared(p) ==
    /\ pc[p] = "down"
    /\ \A q \in Procs : pc[q] # "locked"
    /\ lock' = p
    /\ Goto(p, "locked")
    /\ UNCHANGED <<mem, refreshing, disk, saved, told>>

\* run takes the lock before it loads the settings and keeps it for good.
Acquire(p) ==
    /\ pc[p] = "down"
    /\ lock = NoProc
    /\ lock' = p
    /\ Goto(p, "locked")
    /\ UNCHANGED <<mem, refreshing, disk, saved, told>>

\* The lock is taken: run returns its error.
Refused(p) ==
    /\ pc[p] = "down"
    /\ lock # NoProc
    /\ UNCHANGED vars

Defaults(id) ==
    [edit |-> 0, fields |-> [f \in Fields |-> 0], hwid |-> id,
     ports |-> [t \in Tags |-> NoPort]]

\* Load: without a file the defaults, with a hardware id made up on the
\* spot, which are not saved.
Loaded == IF disk = Missing THEN {Defaults(id) : id \in Ids} ELSE {disk} \ {Torn}

Launch(p) ==
    /\ pc[p] = "locked"
    /\ \E s \in Loaded : mem' = [mem EXCEPT ![p] = s]
    /\ Goto(p, "idle")
    /\ UNCHANGED <<lock, refreshing, disk, saved, told>>

\* Load fails, at every attempt: run returns the error and the lock.
LaunchFails(p) ==
    /\ pc[p] = "locked"
    /\ disk = Torn
    /\ lock' = NoProc
    /\ Goto(p, "down")
    /\ UNCHANGED <<mem, refreshing, disk, saved, told>>

\* The process ends, by a crash or by the exit entry, which saves nothing.
\* The lock goes with it, whether run releases it or the kernel does.
Crash(p) ==
    /\ pc[p] # "down"
    /\ Goto(p, "down")
    /\ lock' = NoProc
    /\ mem' = [mem EXCEPT ![p] = Missing]
    /\ refreshing' = refreshing \ {p}
    /\ UNCHANGED <<disk, saved, told>>

-----------------------------------------------------------------------------
(* What a running process does                                             *)

\* Mutant: nextFree does not look at the persisted assignments.
UncheckedPorts(p) == Ports

\* Mutant: nextFree has no upper bound.
UnboundedPorts(p) == (1..(MaxPort + 1)) \ {mem[p].ports[t] : t \in Tags}

FreePorts(p) == Ports \ {mem[p].ports[t] : t \in Tags}

\* A refresh, of the timer's or the UI thread's, reads the URL, and goes on
\* only when there is one.  Like Plan it needs the settings' lock, which Save
\* holds.
Fetch(p) ==
    /\ pc[p] \in {"idle", "edited"}
    /\ p \notin refreshing
    /\ mem[p].fields[UrlField] # 0
    /\ refreshing' = refreshing \cup {p}
    /\ UNCHANGED <<pc, lock, mem, disk, saved, told>>

\* No refresh is left: it has published its result, or some stage failed.
EndRefresh(p) ==
    /\ p \in refreshing
    /\ refreshing' = refreshing \ {p}
    /\ UNCHANGED <<pc, lock, mem, disk, saved, told>>

\* It meets a tag for the first time since the settings were loaded, though
\* the URL may have been taken away again meanwhile: Plan records the first
\* free port, in memory.
PlanNode(p, t) ==
    /\ pc[p] \in {"idle", "edited"}
    /\ p \in refreshing
    /\ mem[p].ports[t] = NoPort
    /\ \E n \in FreePorts(p) :
          /\ \A m \in FreePorts(p) : n <= m
          /\ mem' = [mem EXCEPT ![p].ports[t] = n]
          /\ told' = IF told[t] = NoPort THEN [told EXCEPT ![t] = n] ELSE told
    /\ UNCHANGED <<pc, lock, refreshing, disk, saved>>

\* The critical section of an edit: fields and hardware id become what the
\* window says, nothing else changes ...
SetFields(p, fields, id) ==
    /\ pc[p] = "idle"
    /\ mem[p].edit < MaxEdits
    /\ mem' = [mem EXCEPT ![p] = [edit |-> mem[p].edit + 1, fields |-> fields,
                                  hwid |-> id, ports |-> mem[p].ports]]
    /\ Goto(p, "edited")
    /\ UNCHANGED <<lock, refreshing, disk, saved, told>>

Edit(p) ==
    \E fields \in [Fields -> 0..MaxEdits], id \in Ids : SetFields(p, fields, id)

\* ... and call Save, whose os.WriteFile first truncates the file ...
OpenFile(p) ==
    /\ pc[p] = "edited"
    /\ Goto(p, "writing")
    /\ disk' = Torn
    /\ UNCHANGED <<lock, mem, refreshing, saved, told>>

\* Mutant: Save leaves the assignments out of what it writes.
WriteFileNoPorts(p) ==
    /\ pc[p] = "writing"
    /\ Goto(p, "idle")
    /\ disk' = [mem[p] EXCEPT !.ports = [t \in Tags |-> NoPort]]
    /\ saved' = mem[p]
    /\ UNCHANGED <<lock, mem, refreshing, told>>

\* ... then writes it.
WriteFile(p) ==
    /\ pc[p] = "writing"
    /\ Goto(p, "idle")
    /\ disk' = mem[p]
    /\ saved' = mem[p]
    /\ UNCHANGED <<lock, mem, refreshing, told>>

\* Save returns an error, which its callers drop: the file could not be
\* opened and is as it was, or could not be written and is cut short.
SaveFails(p) ==
    /\ pc[p] \in {"edited", "writing"}
    /\ Goto(p, "idle")
    /\ UNCHANGED <<lock, mem, refreshing, disk, saved, told>>

Save(p) == OpenFile(p) \/ WriteFile(p) \/ SaveFails(p)

Next ==
    \E p \in Procs :
        \/ Acquire(p) \/ Refused(p)
        \/ Launch(p) \/ LaunchFails(p) \/ Crash(p)
        \/ Fetch(p) \/ EndRefresh(p) \/ \E t \in Tags : PlanNode(p, t)
        \/ Edit(p) \/ Save(p)

Spec == Init /\ [][Next]_vars

-----------------------------------------------------------------------------
(* Properties                                                              *)

TypeOK ==
    /\ pc \in [Procs -> {"down", "locked", "idle", "edited", "writing"}]
    /\ lock \in Procs \cup {NoProc}
    /\ mem \in [Procs -> Contents \cup {Missing}]
    /\ \A p \in Procs : Running(p) => mem[p] \in Contents
    /\ refreshing \in SUBSET Procs
    /\ disk \in Contents \cup {Missing, Torn}
    /\ saved \in Contents \cup {Missing}
    /\ told \in [Tags -> Ports \cup {NoPort}]

\* An edit whose Save returned without error is in force in every process
\* that runs, through any crashes, failed Saves and attempts to start a
\* second process: the program would rather not start than start from older
\* settings.  Until the next edit the hardware id too is the saved one.
EditsDurable ==
    \A p \in Procs : Running(p) /\ saved # Missing =>
        /\ mem[p].edit >= saved.edit
        /\ mem[p].edit = saved.edit =>
              mem[p].fields = saved.fields /\ mem[p].hwid = saved.hwid

\* A port that was assigned when a Save completed is that node's port
\* whenever the program runs.
SavedPortsDurable ==
    \A p \in Procs : Running(p) /\ saved # Missing =>
        \A t \in Tags : saved.ports[t] # NoPort => mem[p].ports[t] = saved.ports[t]

\* Two nodes never hold the same port, though restarts forget assignments
\* and the forgotten ports are given out again.
DistinctPorts ==
    \A p \in Procs : Running(p) =>
        \A t, u \in Tags :
            mem[p].ports[t] = mem[p].ports[u] /\ mem[p].ports[t] # NoPort => t = u

\* What README.md says of the assignments: they are persisted "so proxy URLs
\* stay valid across restarts".  A tag that has a port has the one it was
\* first given.
PortsSurviveRestart ==
    \A p \in Procs : Running(p) =>
        \A t \in Tags : mem[p].ports[t] # NoPort => mem[p].ports[t] = told[t]
=============================================================================
