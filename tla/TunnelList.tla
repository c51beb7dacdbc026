----------------------------- MODULE TunnelList ------------------------------
(* The tunnels the user keeps: data/TunnelRepository.kt, the list operations  *)
(* of ui/TunnelsViewModel.kt, and the clicks of ui/TunnelsFragment.kt and     *)
(* ui/AddTunFragment.kt that call them. All of these run on the main thread;  *)
(* refresh() also runs on the I/O threads of the session's coroutines, when a *)
(* session has come up or been torn down, and reads the preferences there at  *)
(* its own pace. The session itself (SocksVpnService, TunnelsViewModel) is    *)
(* reduced to the tunnel it is for. Android is external: it may recreate the  *)
(* activity, or kill the process, whose last preference writes are then lost. *)
EXTENDS Naturals, Sequences, Functions, FiniteSets

CONSTANTS
  Ids, Contents,   \* a Tunnel is an id and the rest of its fields
  Workers,         \* I/O threads that may be inside refresh()
  MaxOps           \* operations of the user

Tunnels == [id : Ids, fields : Contents]
NoTunnel == [id |-> 0, fields |-> 0]   \* null; getSelectedId() returns it for -1

VARIABLES
  prefs, disk,       \* SharedPreferences in memory and on disk: list and id
  tunnels, selected, \* _tunnels, _selected
  active,            \* _active.value.tunnel
  stopping,          \* a teardown has been launched
  io,                \* per worker: how far its refresh() is, what it has read
  dialog, pendingStart,   \* the VPN permission dialog; what it was for
  ops
\* History: a refresh() on an I/O thread overwrote newer state, or a tunnel
\* that is not in the list was started.
VARIABLE stale

listVars == <<prefs, disk, tunnels, selected, active, stopping, io, dialog, pendingStart, ops, stale>>
session == <<active, stopping>>
ui == <<dialog, pendingStart>>

IdleIo == [at |-> "idle", list |-> <<>>, sel |-> NoTunnel]
ListInit ==
  /\ prefs = [list |-> <<>>, id |-> 0] /\ disk = prefs
  /\ tunnels = <<>> /\ selected = NoTunnel /\ active = NoTunnel /\ stopping = FALSE
  /\ io = [w \in Workers |-> IdleIo]
  /\ dialog = FALSE /\ pendingStart = NoTunnel
  /\ ops = 0 /\ stale = FALSE
-----------------------------------------------------------------------------
\* TunnelRepository.getSelected
getSelected(p) ==
  IF p.list = <<>> THEN NoTunnel
  ELSE IF \E t \in Range(p.list) : t.id = p.id THEN CHOOSE t \in Range(p.list) : t.id = p.id
  ELSE Head(p.list)

IoBusy == \E w \in Workers : io[w].at # "idle"

\* refresh() on the main thread, after a change of the preferences to p.
refreshKeepingSelected(p) ==
  /\ prefs' = p /\ tunnels' = p.list /\ UNCHANGED selected
  /\ stale' = IoBusy

refresh(p) ==
  /\ prefs' = p /\ tunnels' = p.list /\ selected' = getSelected(p)
  /\ stale' = IoBusy

Op == ops < MaxOps /\ ops' = ops + 1

\* The preferences addTunnel() leaves; it refreshes if it has changed them.
addTunnelAlways(t) == [prefs EXCEPT !.list = Append(@, t)]

addTunnel(t) ==
  IF \E u \in Range(prefs.list) : u.id = t.id THEN prefs ELSE [prefs EXCEPT !.list = Append(@, t)]

\* AddTunFragment draws a new random id.
AddTunnel ==
  /\ Op /\ ~dialog
  /\ \E t \in Tunnels : t.id \notin {u.id : u \in Range(prefs.list)} /\ refresh(addTunnel(t))
  /\ UNCHANGED <<disk, session, io, ui>>

\* current.removeAll { it.id == tunnel.id }
removeAll(list, id) ==
  LET kept[i \in 0 .. Len(list)] ==
        IF i = 0 THEN <<>>
        ELSE IF list[i].id = id THEN kept[i - 1] ELSE Append(kept[i - 1], list[i])
  IN  kept[Len(list)]

\* confirmDelete lets through only a tunnel that is not active, so that
\* removeTunnel() does not have to stop it.
RemoveTunnel ==
  /\ Op /\ ~dialog
  /\ \E t \in Range(tunnels) :
       /\ active # t
       /\ refresh([prefs EXCEPT !.list = removeAll(@, t.id)])
  /\ UNCHANGED <<disk, session, io, ui>>

\* AddTunFragment keeps the id of the tunnel it edits.
UpdateTunnel ==
  /\ Op /\ ~dialog
  /\ \E old \in Range(tunnels), c \in Contents, idx \in DOMAIN prefs.list :
       /\ prefs.list[idx].id = old.id /\ \A i \in 1 .. idx - 1 : prefs.list[i].id # old.id
       /\ stopping' = (stopping \/ active = old)
       /\ refresh([prefs EXCEPT !.list[idx] = [old EXCEPT !.fields = c]])
  /\ UNCHANGED <<disk, active, io, ui>>

SelectTunnel ==
  /\ Op /\ ~dialog
  /\ \E t \in Range(tunnels) :
       /\ prefs' = [prefs EXCEPT !.id = t.id] /\ selected' = t
       /\ stale' = (stale \/ t \notin Range(prefs.list) \/ IoBusy)
  /\ stopping' = (stopping \/ active # NoTunnel)
  /\ UNCHANGED <<disk, tunnels, active, io, ui>>

\* startTunnel(), with preferences p: nothing if t is running, else a session
\* for t replaces the one there is.
startTunnel(t, p) ==
  \/ /\ active = t /\ prefs' = p
     /\ IF p = prefs THEN UNCHANGED <<selected, stale>> ELSE selected' = getSelected(p) /\ stale' = IoBusy
     /\ UNCHANGED session
  \/ /\ prefs' = [p EXCEPT !.id = t.id] /\ selected' = t
     /\ stale' = ((p = prefs /\ stale) \/ t \notin Range(p.list) \/ IoBusy)
     /\ active' = t /\ stopping' = FALSE

\* What startCurrent() starts, if anything.
Current == IF active # NoTunnel THEN active ELSE IF selected # NoTunnel THEN selected ELSE getSelected(prefs)
startCurrent ==
  IF Current = NoTunnel THEN UNCHANGED <<prefs, selected, stale, session>> ELSE startTunnel(Current, prefs)

\* requestVpnAndStart() where VpnService.prepare() asks for the dialog.
AskPermission(t, p) ==
  /\ dialog' = TRUE /\ pendingStart' = t /\ prefs' = p
  /\ IF p = prefs THEN UNCHANGED <<selected, stale>> ELSE selected' = getSelected(p) /\ stale' = IoBusy
  /\ UNCHANGED session

ConnectButton ==
  /\ Op /\ ~dialog
  /\ IF active # NoTunnel
     THEN stopping' = TRUE /\ UNCHANGED <<prefs, selected, stale, active, ui>>
     ELSE AskPermission(NoTunnel, prefs) \/ (startCurrent /\ UNCHANGED ui)
  /\ UNCHANGED <<disk, tunnels, io>>

\* A QR code: addTunnel(), then start what was scanned, listed or not.
QrScanned ==
  /\ Op /\ ~dialog
  /\ \E t \in Tunnels :
       /\ tunnels' = IF addTunnel(t) = prefs THEN tunnels ELSE addTunnel(t).list
       /\ AskPermission(t, addTunnel(t)) \/ (startTunnel(t, addTunnel(t)) /\ UNCHANGED ui)
  /\ UNCHANGED <<disk, io>>

\* The dialog's result: refused, or granted.
VpnPermission ==
  /\ dialog /\ dialog' = FALSE /\ pendingStart' = NoTunnel
  /\ \/ UNCHANGED <<prefs, selected, stale, session>>
     \/ IF pendingStart # NoTunnel THEN startTunnel(pendingStart, prefs) ELSE startCurrent
  /\ UNCHANGED <<disk, tunnels, io, ops>>

\* A session comes up, or is torn down: refresh() on its coroutine's thread.
Session ==
  /\ active # NoTunnel
  /\ active' \in {active, NoTunnel} /\ stopping' = FALSE
  /\ stopping => active' = NoTunnel
  /\ \E w \in Workers : io[w].at = "idle" /\ io' = [io EXCEPT ![w].at = "load"]
  /\ UNCHANGED <<prefs, disk, tunnels, selected, ui, ops, stale>>

IoRefresh(w) ==
  /\ \/ /\ io[w].at = "load"
        /\ io' = [io EXCEPT ![w].at = "show", ![w].list = prefs.list]
        /\ UNCHANGED <<tunnels, selected, stale>>
     \/ /\ io[w].at = "show"
        /\ io' = [io EXCEPT ![w].at = "getSelected"]
        /\ tunnels' = io[w].list /\ stale' = (stale \/ io[w].list # prefs.list)
        /\ UNCHANGED selected
     \/ /\ io[w].at = "getSelected"
        /\ io' = [io EXCEPT ![w].at = "select", ![w].sel = getSelected(prefs)]
        /\ UNCHANGED <<tunnels, selected, stale>>
     \/ /\ io[w].at = "select" /\ io' = [io EXCEPT ![w] = IdleIo]
        /\ selected' = io[w].sel /\ stale' = (stale \/ io[w].sel # getSelected(prefs))
        /\ UNCHANGED tunnels
  /\ UNCHANGED <<prefs, disk, session, ui, ops>>

\* prefs.edit {} writes to disk later, the whole map at a time.
WriteToDisk ==
  /\ disk # prefs /\ disk' = prefs
  /\ UNCHANGED <<prefs, tunnels, selected, session, io, ui, ops, stale>>

\* The activity is recreated (say, turned): a new fragment, the same view
\* model, and the dialog's result still to come, which then starts the
\* selected tunnel, whatever the dialog was for.
Recreated ==
  /\ dialog /\ pendingStart' = NoTunnel
  /\ UNCHANGED <<prefs, disk, tunnels, selected, session, io, dialog, ops, stale>>

\* The process is killed and comes back.
Restarted ==
  /\ Op /\ ~dialog /\ prefs' = disk
  /\ tunnels' = disk.list /\ selected' = getSelected(disk)
  /\ active' = NoTunnel /\ stopping' = FALSE /\ io' = [w \in Workers |-> IdleIo] /\ stale' = FALSE
  /\ UNCHANGED <<disk, ui>>

ListNext ==
  \/ AddTunnel \/ RemoveTunnel \/ UpdateTunnel \/ SelectTunnel \/ ConnectButton \/ QrScanned
  \/ VpnPermission \/ Session \/ WriteToDisk \/ Recreated \/ Restarted
  \/ \E w \in Workers : IoRefresh(w)

ListSpec == ListInit /\ [][ListNext]_listVars
-----------------------------------------------------------------------------
(* No two saved tunnels have the same id, in memory or on disk, across adds,  *)
(* scans of a code that is already there, edits and restarts: getSelected()   *)
(* and removeTunnel(), which go by id, mean one tunnel.                       *)
IdsAreUnique ==
  \A p \in {prefs, disk} : \A i, j \in DOMAIN p.list : p.list[i].id = p.list[j].id => i = j

(* The list and the selection on the screen are the saved ones whenever no    *)
(* refresh() is under way. The exceptions are what stale records: a refresh() *)
(* of the session's thread that overtook a change, and a scanned code whose   *)
(* id the list has with other fields; the next refresh() repairs both.        *)
ScreenIsSaved ==
  ~stale /\ ~IoBusy =>
    tunnels = prefs.list /\ selected = getSelected(prefs)
=============================================================================
