------------------------------ MODULE DirMonitor ------------------------------
(***************************************************************************)
(* DirMonitor with a DLLLoader subscribed to its three dispatchers, as     *)
(* their tests put them together: a thread that polls inotify and notifies,*)
(* a loader that opens and closes the plugins the events name, and a main  *)
(* thread that destroys the callbacks and then the monitor.                *)
(*                                                                         *)
(* Undefined: a callback that is destroyed while the thread notifies, an   *)
(* event of no type (it indexes past the dispatchers), and dlclose of the  *)
(* NULL that a failed dlopen left in the loader's table.                   *)
(***************************************************************************)
EXTENDS Integers, Sequences, FiniteSets

CONSTANTS
    PATHS,       \* the files of the directory
    MAX_EVENTS   \* bound on the changes of the directory

VARIABLES
    files,         \* what is in the directory: a plugin, something else or nothing
    inotify,       \* events the kernel holds
    changes,       \* changes so far
    monitor,       \* where the thread is: "none", "poll", "batch", "notify", "joined", "threw"
    batch,         \* events read and not notified yet
    subscribers,   \* event types whose callback is subscribed
    m_threadRun,
    owner_,        \* main: "uses" the monitor, "destroys" it, has "gone"
    m_handles,     \* the loader's table: "open", "null", or "none" where there is no entry
    opened,        \* dlopen's count of each plugin
    dmUndefined

dmVars == <<files, inotify, changes, monitor, batch, subscribers, m_threadRun, owner_,
            m_handles, opened, dmUndefined>>

Types == {"ADDED", "CHANGED", "REMOVED"}

DirMonitorInit ==
    /\ files = [p \in PATHS |-> "none"] /\ inotify = <<>> /\ changes = 0
    /\ monitor = "none" /\ batch = <<>> /\ subscribers = Types
    /\ m_threadRun = FALSE /\ owner_ = "uses"
    /\ m_handles = [p \in PATHS |-> "none"] /\ opened = [p \in PATHS |-> 0]
    /\ dmUndefined = FALSE

loaderVars == <<m_handles, opened>>
dirVars == <<files, inotify, changes>>

-----------------------------------------------------------------------------
(* DLLLoader.                                                              *)

CanOpen(p) == files[p] = "plugin"

\* dlopen counts; emplace keeps the entry there is.
Opened(handles, count, p) ==
    /\ m_handles' = IF handles[p] # "none" THEN handles
                    ELSE [handles EXCEPT ![p] = IF CanOpen(p) THEN "open" ELSE "null"]
    /\ opened' = IF CanOpen(p) THEN [count EXCEPT ![p] = @ + 1] ELSE count

Load(p) == Opened(m_handles, opened, p) /\ UNCHANGED dmUndefined

Closed(p) == IF m_handles[p] = "open" THEN [opened EXCEPT ![p] = @ - 1] ELSE opened

\* Bug: the entry stays.
UnLoad_EntryKept(p) ==
    /\ opened' = Closed(p)
    /\ dmUndefined' = (m_handles[p] = "null")
    /\ UNCHANGED m_handles

UnLoad(p) ==
    /\ opened' = Closed(p)
    /\ dmUndefined' = (m_handles[p] = "null")
    /\ m_handles' = [m_handles EXCEPT ![p] = "none"]

Modify(p) ==
    /\ dmUndefined' = (m_handles[p] = "null")
    /\ Opened([m_handles EXCEPT ![p] = "none"], Closed(p), p)

\* ~DLLLoader, at exit: one dlclose for each entry.
DestroyLoader ==
    /\ owner_ = "gone" /\ \E p \in PATHS : m_handles[p] # "none"
    /\ dmUndefined' = \E p \in PATHS : m_handles[p] = "null"
    /\ opened' = [p \in PATHS |-> IF m_handles[p] = "open" THEN opened[p] - 1 ELSE opened[p]]
    /\ m_handles' = [p \in PATHS |-> "none"]
    /\ UNCHANGED <<dirVars, monitor, batch, subscribers, m_threadRun, owner_>>

-----------------------------------------------------------------------------
(* The directory: moved in, written in place, moved out or deleted.        *)

Change(p, type, content) ==
    /\ changes < MAX_EVENTS /\ changes' = changes + 1
    /\ files' = [files EXCEPT ![p] = content]
    /\ inotify' = IF monitor = "none" THEN inotify ELSE Append(inotify, [type |-> type, path |-> p])
    /\ UNCHANGED <<monitor, batch, subscribers, m_threadRun, owner_, loaderVars, dmUndefined>>

DirectoryChanges == \E p \in PATHS :
    \/ \E content \in {"plugin", "other"} : Change(p, "ADDED", content) \/ Change(p, "CHANGED", content)
    \/ files[p] # "none" /\ Change(p, "REMOVED", "none")

\* The queue of the kernel overflows, or the directory goes: an event with another mask.
OtherEvent ==
    /\ changes < MAX_EVENTS /\ changes' = changes + 1 /\ monitor # "none"
    /\ inotify' = Append(inotify, [type |-> "NUM_TYPES", path |-> ""])
    /\ UNCHANGED <<files, monitor, batch, subscribers, m_threadRun, owner_, loaderVars, dmUndefined>>

-----------------------------------------------------------------------------
(* DirMonitor's thread.                                                    *)

RunMonitor ==
    /\ owner_ = "uses" /\ monitor = "none"
    /\ m_threadRun' = TRUE /\ monitor' = "poll"
    /\ UNCHANGED <<dirVars, batch, subscribers, owner_, loaderVars, dmUndefined>>

\* poll and read: all the events, or none after a signal or 2 seconds.
PollReady ==
    /\ monitor = "poll" /\ m_threadRun /\ inotify # <<>>
    /\ batch' = inotify /\ inotify' = <<>> /\ monitor' = "batch"
    /\ UNCHANGED <<files, changes, subscribers, m_threadRun, owner_, loaderVars, dmUndefined>>

\* Any other error of poll is thrown out of the thread: the process ends.
PollFails ==
    /\ monitor = "poll" /\ m_threadRun
    /\ monitor' = "threw"
    /\ UNCHANGED <<dirVars, batch, subscribers, m_threadRun, owner_, loaderVars, dmUndefined>>

\* The loop's condition after a poll or a batch.
WorkReturns ==
    /\ monitor = "poll" /\ ~m_threadRun
    /\ monitor' = "joined"
    /\ UNCHANGED <<dirVars, batch, subscribers, m_threadRun, owner_, loaderVars, dmUndefined>>

BatchEnds ==
    /\ monitor = "batch" /\ batch = <<>> /\ monitor' = "poll"
    /\ UNCHANGED <<dirVars, batch, subscribers, m_threadRun, owner_, loaderVars, dmUndefined>>

\* NotifyAll of the event's dispatcher: the copy of its callbacks.
NotifyEvent ==
    /\ monitor = "batch" /\ batch # <<>>
    /\ dmUndefined' = (Head(batch).type \notin Types)
    /\ IF Head(batch).type \in subscribers THEN monitor' = "notify" /\ UNCHANGED batch
       ELSE batch' = Tail(batch) /\ UNCHANGED monitor
    /\ UNCHANGED <<dirVars, subscribers, m_threadRun, owner_, loaderVars>>

\* The callback of the copy, if it is still there.
CallbackOfEvent ==
    /\ monitor = "notify"
    /\ LET event == Head(batch) IN
       CASE event.type \notin subscribers -> dmUndefined' = TRUE /\ UNCHANGED loaderVars
         [] event.type \in subscribers /\ event.type = "ADDED" -> Load(event.path)
         [] event.type \in subscribers /\ event.type = "CHANGED" -> Modify(event.path)
         [] event.type \in subscribers /\ event.type = "REMOVED" -> UnLoad(event.path)
    /\ batch' = Tail(batch) /\ monitor' = "batch"
    /\ UNCHANGED <<dirVars, subscribers, m_threadRun, owner_>>

\* ~BaseCallback of one of the three, which main declared after the monitor.
DestroySubscriber ==
    /\ owner_ = "uses"
    /\ \E type \in subscribers : subscribers' = subscribers \ {type}
    /\ UNCHANGED <<dirVars, monitor, batch, m_threadRun, owner_, loaderVars, dmUndefined>>

\* Bug: the flag is cleared after the join.
DestroyMonitor_FlagLater ==
    /\ owner_ = "uses" /\ subscribers = {}
    /\ owner_' = "destroys"
    /\ UNCHANGED <<dirVars, monitor, batch, subscribers, m_threadRun, loaderVars, dmUndefined>>

\* ~DirMonitor: the flag, then the join.
DestroyMonitor ==
    /\ owner_ = "uses" /\ subscribers = {}
    /\ m_threadRun' = FALSE /\ owner_' = "destroys"
    /\ UNCHANGED <<dirVars, monitor, batch, subscribers, loaderVars, dmUndefined>>

MonitorJoined ==
    /\ owner_ = "destroys" /\ monitor \in {"none", "joined"}
    /\ owner_' = "gone"
    /\ UNCHANGED <<dirVars, monitor, batch, subscribers, m_threadRun, loaderVars, dmUndefined>>

\* What the thread owes; no poll has to fail.
Work == PollReady \/ WorkReturns \/ BatchEnds \/ NotifyEvent \/ CallbackOfEvent

DirMonitorNext ==
    /\ ~dmUndefined /\ monitor # "threw"
    /\ \/ DirectoryChanges \/ OtherEvent \/ RunMonitor \/ Work \/ PollFails
       \/ DestroySubscriber \/ DestroyMonitor \/ MonitorJoined \/ DestroyLoader

-----------------------------------------------------------------------------
\* Events come late and plugins change meanwhile; still, a handle in the loader's table is
\* one that dlopen has given and no dlclose has ended, so that it is closed once.
HandlesAreOpen == ~dmUndefined => \A p \in PATHS : m_handles[p] = "open" => opened[p] > 0

MonitorIsJoined == owner_ = "gone" \/ dmUndefined \/ monitor = "threw"
=============================================================================
