----------------------------- MODULE AppRoster -----------------------------
(* The phones and watches a box has paired, and the roster of them it keeps  *)
(* at FTW Cloud (internal/appenroll, internal/cloudlink, internal/appuplink).*)
(*                                                                           *)
(* Enrolment keeps its rows in memory under one mutex and saves all of them  *)
(* in one file.  A pairing takes two steps: the handshake is checked, and a  *)
(* callback commits it later.  Each request that changes a row saves, then   *)
(* tells the cloud link, which makes a link when something needs one and     *)
(* marks a roster due.  The link's sender numbers the roster from a stored   *)
(* counter and sends it, and ends the link when nothing needs it any more:   *)
(* the service deletes the home, its receipt deletes the key, and the next   *)
(* link has a new home id.  Requests, the sender, the service, broken        *)
(* connections, failed writes and restarts interleave.                       *)
EXTENDS Naturals, Sequences, FiniteSets

CONSTANTS
    Phones, Watches,    \* device keys
    Households,         \* what applink.json may hold when the box starts
    Available,          \* the build names a service (ServiceKeys)
    Roles,              \* roles given to phones: "owner", "viewer"
    Kinds,              \* kinds of code that are minted: "qr", "spoken"
    Handlers,           \* requests and sessions served at the same time
    MaxTries,           \* MaxPairingAttempts
    MaxOps,             \* bound on changes of rows and codes
    MaxLoss,            \* bound on restarts and lost connections
    MaxFault,           \* bound on failed writes
    NoOne               \* the parent of a phone

ASSUME RosterAssumption ==
    /\ MaxTries \in Nat \ {0} /\ {MaxOps, MaxLoss, MaxFault} \subseteq Nat
    /\ Phones \cap Watches = {} /\ NoOne \notin Phones \cup Watches
    /\ Available \in BOOLEAN /\ Kinds \subseteq {"qr", "spoken"}
    /\ Roles \subseteq {"owner", "viewer"}

VARIABLES
    rows,       \* Identity.authorised
    disk,       \* applink.json
    code,       \* Identity.pairing
    offered,    \* pairings checked and not yet committed: <<phone, code>>
    job,        \* where each request is
    link,       \* the link record: the home id and whether it is ending
    due,        \* rosterDue
    wake,       \* a signal for a Run that waits
    kv,         \* the stored roster number and digest
    net,        \* Run and the sender
    uplink,     \* messages on the way to the service
    receipt,    \* a purge receipt is on the way to the box
    svc,        \* what the service holds
    spent,      \* observed: who was enrolled with which code
    gone,       \* observed: devices whose removal was reported done
    emptied,    \* observed: the last owner was removed at the box
    used        \* bounds: codes, homes, changes, losses, faults

enrolment == <<rows, disk, code, offered, job>>
cloud == <<link, due, wake, kv, net, uplink, receipt, svc>>
observed == <<spent, gone, emptied>>
vars == <<enrolment, cloud, observed, used>>

Devices == Phones \cup Watches
NoRow == [role |-> "none", epoch |-> 0, parent |-> NoOne]
NoCode == [id |-> 0, role |-> "none", kind |-> "none", tries |-> 0, shown |-> 0]
NoLink == [home |-> 0, ending |-> FALSE]
Idle == [pc |-> "idle", code |-> 0, gone |-> {}]

\* A file the box wrote: a phone has a role, a watch has its phone, and a box
\* with phones has an owner.
Household(f) ==
    /\ f \in [Devices -> [role : {"owner", "viewer", "watch", "none"}, epoch : Nat,
                          parent : Phones \cup {NoOne}]]
    /\ \A d \in Phones : f[d] = NoRow \/ (f[d].role \in {"owner", "viewer"} /\ f[d].parent = NoOne)
    /\ \A w \in Watches : f[w] = NoRow \/ (f[w].role = "watch" /\ f[w].parent \in Phones
                                            /\ f[f[w].parent] # NoRow)

HasOwner(f) == (\E d \in Phones : f[d] # NoRow) => \E d \in Phones : f[d].role = "owner"

ASSUME HouseholdAssumption == \A f \in Households : Household(f) /\ HasOwner(f)

-----------------------------------------------------------------------------
(* What is read from the rows *)

Enrolled == {d \in Devices : rows[d] # NoRow}
Owners == {d \in Enrolled : rows[d].role = "owner"}

\* rosterLocked and CloudSnapshot: every row, a watch with the role its phone
\* holds now, and the QR code on the screen hashed with the home.
Listing(home) ==
    [devices |-> {[id |-> d, role |-> rows[d].role, epoch |-> rows[d].epoch,
                   parent |-> IF d \in Watches THEN rows[rows[d].parent].role ELSE "none"] :
                  d \in {e \in Enrolled : e \in Watches => rows[e].parent \in Enrolled}},
     pending |-> IF code.kind = "qr" THEN {<<home, code.id>>} ELSE {}]

NoListing == [devices |-> {}, pending |-> {}]

\* wantsLink: a device to carry, or a code on the screen.
WantsLink == Listing(0) # NoListing

\* A faulty variant: the role is the code's.
PairingRoleOfCode == code.role

\* pairingRoleLocked: whoever creates a home owns it.
PairingRole == IF Owners = {} THEN "owner" ELSE code.role

\* A faulty variant: the code was checked in the handshake, and that is enough.
SomeCode(c) == TRUE

\* The code must still be the one the handshake carried.
StillThisCode(c) == code.id = c

-----------------------------------------------------------------------------
(* Enrolment *)

TypeOK ==
    /\ rows \in [Devices -> [role : {"owner", "viewer", "watch", "none"}, epoch : Nat,
                             parent : Phones \cup {NoOne}]]
    /\ disk \in [Devices -> [role : {"owner", "viewer", "watch", "none"}, epoch : Nat,
                             parent : Phones \cup {NoOne}]]
    /\ code \in [id : Nat, role : {"owner", "viewer", "none"}, kind : {"qr", "spoken", "none"},
                 tries : 0..(MaxTries - 1), shown : Nat]
    /\ offered \subseteq Phones \X Nat
    /\ job \in [Handlers -> [pc : {"idle", "save", "notify", "decide", "link", "mark", "show"},
                             code : Nat, gone : SUBSET Devices]]
    /\ link \in [home : Nat, ending : BOOLEAN]
    /\ due \in BOOLEAN /\ wake \in BOOLEAN /\ receipt \in BOOLEAN
    /\ net.pc \in {"check", "wait", "dial", "hello", "up", "end", "send"}
    /\ Len(uplink) <= 2
    /\ emptied \in BOOLEAN
    /\ used.ops <= MaxOps /\ used.loss <= MaxLoss /\ used.fault <= MaxFault

\* Between connections nothing is left of the last one.
NoConnection(pc) ==
    [pc |-> pc, home |-> 0, hello |-> 0, idle |-> FALSE, force |-> FALSE,
     listed |-> 0, ranOut |-> FALSE, bye |-> FALSE]

Init ==
    /\ disk \in Households
    /\ rows = disk
    /\ code = NoCode
    /\ offered = {}
    /\ job = [h \in Handlers |-> Idle]
    /\ link = NoLink
    /\ due = FALSE /\ wake = FALSE /\ receipt = FALSE
    /\ kv = [seq |-> 0, sum |-> NoListing]
    /\ net = NoConnection("check")
    /\ uplink = <<>>
    /\ svc = [home |-> 0, seq |-> 0, roster |-> NoListing]
    /\ spent = {} /\ gone = {} /\ emptied = FALSE
    /\ used = [codes |-> 0, homes |-> 0, ops |-> 0, loss |-> 0, fault |-> 0]

\* A request starts on a free handler and goes on at pc.
Starts(h, pc, c, removed) ==
    /\ job[h].pc = "idle"
    /\ job' = [job EXCEPT ![h] = [pc |-> pc, code |-> c, gone |-> removed]]

\* A write to disk that may fail.
Write(ok) ==
    /\ ok \/ used.fault < MaxFault
    /\ used' = IF ok THEN used ELSE [used EXCEPT !.fault = @ + 1]

Operation(changes) ==
    /\ used.ops < MaxOps
    /\ used' = [changes EXCEPT !.ops = @ + 1]

\* MintPairingCode and MintSpokenCode forget the code before.
Mint(h, role, kind) ==
    LET id == used.codes + 1 IN
    /\ Starts(h, "notify", id, {})
    /\ Operation([used EXCEPT !.codes = id])
    /\ code' = [id |-> id, role |-> role, kind |-> kind, tries |-> 0, shown |-> 0]
    /\ UNCHANGED <<rows, disk, offered, cloud, observed>>

\* RedeemSpokenCode: the code read aloud becomes a full one of the same role.
RedeemSpokenCode(h) ==
    LET id == used.codes + 1 IN
    /\ code.kind = "spoken"
    /\ Starts(h, "notify", id, {})
    /\ Operation([used EXCEPT !.codes = id])
    /\ code' = [code EXCEPT !.id = id, !.kind = "qr", !.tries = 0]
    /\ UNCHANGED <<rows, disk, offered, cloud, observed>>

\* MaxPairingAttempts wrong guesses burn a code.
Burned == code.tries + 1 >= MaxTries

\* A guess that is not the code, in a handshake or typed, counts against it.
WrongGuess ==
    /\ code # NoCode
    /\ code' = IF Burned THEN NoCode ELSE [code EXCEPT !.tries = @ + 1]
    /\ UNCHANGED <<rows, disk, offered, job, cloud, observed, used>>

Expire ==
    /\ code # NoCode
    /\ code' = NoCode
    /\ UNCHANGED <<rows, disk, offered, job, cloud, observed, used>>

\* check: a key that is not on the list needs the live code.  It changes
\* nothing until the commit.
Check(d) ==
    /\ d \notin Enrolled /\ code # NoCode
    /\ offered' = offered \cup {<<d, code.id>>}
    /\ UNCHANGED <<rows, disk, code, job, cloud, observed, used>>

\* A reconnect needs no code.  Its commit reads the row again, stamps it and
\* saves; a stamp that cannot be saved blocks nothing.
Reconnect(d) ==
    /\ d \in Enrolled
    /\ disk' = rows
    /\ UNCHANGED <<rows, code, offered, job, cloud, observed, used>>

\* The commit of a pairing enrols the phone and spends the code.  The same
\* phone's other session may have committed first, and the code may be gone.
CommitPairing(h, d, c) ==
    /\ <<d, c>> \in offered
    /\ offered' = offered \ {<<d, c>>}
    /\ IF d \notin Enrolled /\ StillThisCode(c)
       THEN /\ Starts(h, "save", 0, {})
            /\ Operation(used)
            /\ rows' = [rows EXCEPT ![d] = [role |-> PairingRole, epoch |-> 1, parent |-> NoOne]]
            /\ code' = NoCode
            /\ spent' = spent \cup {<<c, d>>}
            /\ gone' = gone \ {d}
       ELSE UNCHANGED <<rows, code, job, spent, gone, used>>
    /\ UNCHANGED <<disk, emptied, cloud>>

\* AddWatch: the phone that asks must be an owner now.
AddWatch(h, w, d) ==
    /\ d \in Owners /\ w \notin Enrolled
    /\ Starts(h, "save", 0, {})
    /\ Operation(used)
    /\ rows' = [rows EXCEPT ![w] = [role |-> "watch", epoch |-> 1, parent |-> d]]
    /\ gone' = gone \ {w}
    /\ UNCHANGED <<disk, code, offered, cloud, spent, emptied>>

\* SetRole moves the epochs of the phone and of its watches.
SetRole(h, d, role) ==
    /\ d \in Enrolled /\ rows[d].role # role
    /\ Owners # {d}
    /\ Starts(h, "save", 0, {})
    /\ Operation(used)
    /\ rows' = [e \in Devices |->
                   IF e = d THEN [rows[e] EXCEPT !.role = role, !.epoch = @ + 1]
                   ELSE IF rows[e].parent = d THEN [rows[e] EXCEPT !.epoch = @ + 1]
                   ELSE rows[e]]
    /\ UNCHANGED <<disk, code, offered, cloud, observed>>

\* A faulty variant: the phone alone.
RemovedAlone(d) == {e \in Enrolled : e = d}

\* A phone goes with its watches.
RemovedWith(d) == {e \in Enrolled : e = d \/ rows[e].parent = d}

\* Revoke: the last owner is removed at the box only.
Revoke(h, d, atTheBox) ==
    /\ d \in Enrolled
    /\ atTheBox \/ Owners # {d}
    /\ Starts(h, "save", 0, RemovedWith(d))
    /\ Operation(used)
    /\ rows' = [e \in Devices |-> IF e \in RemovedWith(d) THEN NoRow ELSE rows[e]]
    /\ emptied' = (emptied \/ Owners = {d})
    /\ UNCHANGED <<disk, code, offered, cloud, spent, gone>>

\* A faulty variant: a request leaves the write to another one that is about to.
SavedByLast(h) == IF \E g \in Handlers \ {h} : job[g].pc = "save" THEN disk ELSE rows

\* save writes a snapshot of all rows as they are now.
SavedBy(h) == rows

\* The removal is reported done when the save is; whoever paired again since
\* is not concerned.
Save(h, ok) ==
    /\ job[h].pc = "save"
    /\ Write(ok)
    /\ disk' = IF ok THEN SavedBy(h) ELSE disk
    /\ gone' = IF ok THEN gone \cup (job[h].gone \ Enrolled) ELSE gone
    /\ job' = [job EXCEPT ![h].pc = "notify", ![h].gone = {}]
    /\ UNCHANGED <<rows, code, offered, cloud, spent, emptied>>

-----------------------------------------------------------------------------
(* The request tells the cloud link: RosterChanged *)

\* A faulty variant: the revision does not move.
NotMoved == net

\* needsRevision moves first: an endIfIdle that is under way sees it.
Moved == [net EXCEPT !.idle = FALSE]

Notify(h) ==
    /\ job[h].pc = "notify"
    /\ job' = [job EXCEPT ![h].pc = "decide"]
    /\ net' = Moved
    /\ UNCHANGED <<rows, disk, code, offered, link, due, wake, kv, uplink, receipt, svc,
                   observed, used>>

Decide(h) ==
    /\ job[h].pc = "decide"
    /\ job' = [job EXCEPT ![h].pc = IF WantsLink THEN "link" ELSE "mark"]
    /\ UNCHANGED <<rows, disk, code, offered, cloud, observed, used>>

\* signal: a sender that is connected looks by itself.
Signal == wake' = (wake \/ net.pc = "wait")

\* linkLocked: a link that is ending stays as it is.
MakeLink ==
    IF link # NoLink \/ ~Available
    THEN UNCHANGED <<link, used>>
    ELSE /\ used' = [used EXCEPT !.homes = @ + 1]
         /\ link' = [home |-> used'.homes, ending |-> FALSE]

\* A faulty variant: a change after which nothing wants the link is not told.
DueIfWanted(h) == due \/ job[h].pc = "link"

\* Every change makes a roster due.
DueAfter(h) == TRUE

\* The link is made if it was wanted, and a roster is due.
MarkDue(h) ==
    /\ job[h].pc \in {"link", "mark"}
    /\ IF job[h].pc = "link" THEN MakeLink ELSE UNCHANGED <<link, used>>
    /\ due' = DueAfter(h)
    /\ Signal
    /\ job' = [job EXCEPT ![h] = IF @.code = 0 THEN Idle ELSE [@ EXCEPT !.pc = "show"]]
    /\ UNCHANGED <<rows, disk, code, offered, kv, net, uplink, receipt, svc, observed>>

\* Home and EnrollmentURL: the QR names the home unless its link is ending.
Show(h) ==
    /\ job[h].pc = "show"
    /\ code' = IF code.id = job[h].code /\ code.kind = "qr" /\ ~link.ending
               THEN [code EXCEPT !.shown = link.home] ELSE code
    /\ job' = [job EXCEPT ![h] = Idle]
    /\ UNCHANGED <<rows, disk, offered, cloud, observed, used>>

-----------------------------------------------------------------------------
(* Run and the sender *)

\* The top of Run: the first link, or the next one after an end was confirmed.
RunCheck ==
    /\ net.pc = "check"
    /\ IF WantsLink THEN MakeLink ELSE UNCHANGED <<link, used>>
    /\ due' = (due \/ link' # link)
    /\ net' = NoConnection(IF link' = NoLink THEN "wait" ELSE "dial")
    /\ UNCHANGED <<enrolment, wake, kv, uplink, receipt, svc, observed>>

RunWakes ==
    /\ net.pc = "wait" /\ wake
    /\ wake' = FALSE
    /\ net' = [net EXCEPT !.pc = "check"]
    /\ UNCHANGED <<enrolment, link, due, kv, uplink, receipt, svc, observed, used>>

\* rosterNumber: the number rises when the roster differs from the one it was
\* last computed from.
Numbered(home) ==
    IF kv.sum = Listing(home) THEN kv ELSE [seq |-> kv.seq + 1, sum |-> Listing(home)]

\* serve sends hello with the number.
Hello(ok) ==
    /\ net.pc = "dial"
    /\ Write(ok)
    /\ kv' = IF ok THEN Numbered(link.home) ELSE kv
    /\ net' = [net EXCEPT !.pc = "hello", !.home = link.home, !.hello = Numbered(link.home).seq]
    /\ svc' = IF svc.home = link.home THEN svc
              ELSE [home |-> link.home, seq |-> 0, roster |-> NoListing]
    /\ UNCHANGED <<enrolment, link, due, wake, uplink, receipt, observed>>

\* A faulty variant: the number stays behind.
NotBumped == kv.seq

\* bumpRoster: the number moves past the service's.
Bumped == svc.seq + 1

\* hello_ok carries the service's number; the sender starts with a roster.
HelloOK(ok) ==
    /\ net.pc = "hello"
    /\ Write(ok)
    /\ kv' = IF ok /\ svc.seq > net.hello THEN [kv EXCEPT !.seq = Bumped] ELSE kv
    /\ due' = (due \/ svc.seq > net.hello)
    /\ net' = [net EXCEPT !.pc = "up", !.force = TRUE, !.hello = 0]
    /\ UNCHANGED <<enrolment, link, wake, uplink, receipt, svc, observed>>

\* The renewal after six hours, and a resync the service asks for.
Renew ==
    /\ net.pc = "up" /\ ~net.force
    /\ net' = [net EXCEPT !.force = TRUE]
    /\ UNCHANGED <<enrolment, link, due, wake, kv, uplink, receipt, svc, observed, used>>

\* pendingUntil: the time of the code the last roster listed has passed.
ListedRunsOut ==
    /\ net.pc = "up" /\ net.listed # 0 /\ net.listed # code.id
    /\ net' = [net EXCEPT !.listed = 0, !.ranOut = TRUE]
    /\ UNCHANGED <<enrolment, link, due, wake, kv, uplink, receipt, svc, observed, used>>

RosterIsDue == due \/ net.force \/ net.ranOut

\* A faulty variant: only with a change.
AsksOnChange == ~WantsLink /\ ~net.force

\* endIfIdle asks with every roster that goes.
Asks == ~WantsLink

\* takeRoster reads and clears what is due, and endIfIdle reads the revision
\* and asks whether anything needs the link.
TakeRoster ==
    /\ net.pc = "up" /\ ~link.ending
    /\ RosterIsDue
    /\ due' = FALSE
    /\ net' = [net EXCEPT !.pc = "end", !.idle = Asks, !.ranOut = FALSE]
    /\ UNCHANGED <<enrolment, link, wake, kv, uplink, receipt, svc, observed, used>>

\* endIfIdle ends the link if nothing moved since it asked.
EndIfIdle(ok) ==
    /\ net.pc = "end"
    /\ Write(ok)
    /\ link' = IF net.idle /\ ok THEN [link EXCEPT !.ending = TRUE] ELSE link
    /\ net' = [net EXCEPT !.pc = "send", !.idle = FALSE]
    /\ UNCHANGED <<enrolment, due, wake, kv, uplink, receipt, svc, observed>>

\* The roster is built from the rows as they are now, after the mark was
\* cleared: a change since then stays due.  A link that just started to end
\* sends bye instead.
SendRoster(ok) ==
    /\ net.pc = "send"
    /\ Write(ok)
    /\ LET r == Numbered(link.home) IN
       /\ kv' = IF ok THEN r ELSE kv
       /\ IF link.ending
          THEN /\ UNCHANGED uplink
               /\ net' = [net EXCEPT !.pc = "up"]
          ELSE /\ Len(uplink) < 2
               /\ uplink' = Append(uplink, [t |-> "roster", seq |-> r.seq, roster |-> r.sum])
               /\ net' = [net EXCEPT !.pc = "up", !.force = FALSE,
                                     !.listed = IF @ = 0 /\ code.kind = "qr" THEN code.id ELSE @]
    /\ UNCHANGED <<enrolment, link, due, wake, receipt, svc, observed>>

SendBye ==
    /\ net.pc = "up" /\ link.ending /\ ~net.bye
    /\ Len(uplink) < 2
    /\ uplink' = Append(uplink, [t |-> "bye", seq |-> 0, roster |-> NoListing])
    /\ net' = [net EXCEPT !.bye = TRUE]
    /\ UNCHANGED <<enrolment, link, due, wake, kv, receipt, svc, observed, used>>

\* acceptPurged and finishLink: the key goes with the link, and Run starts over.
FinishLink ==
    /\ receipt /\ link.ending
    /\ link' = NoLink
    /\ net' = NoConnection("check")
    /\ uplink' = <<>> /\ receipt' = FALSE
    /\ UNCHANGED <<enrolment, due, wake, kv, svc, observed, used>>

\* The connection breaks, or no receipt came in time; what was on the way is lost.
Break ==
    /\ net.pc \in {"hello", "up", "end", "send"}
    /\ used.loss < MaxLoss
    /\ used' = [used EXCEPT !.loss = @ + 1]
    /\ net' = NoConnection("check")
    /\ uplink' = <<>> /\ receipt' = FALSE
    /\ UNCHANGED <<enrolment, link, due, wake, kv, svc, observed>>

-----------------------------------------------------------------------------
(* The service, and a restart of the box *)

\* The service takes a roster whose number is at least the one it holds, and
\* deletes the home on bye.
Service ==
    /\ uplink # <<>>
    /\ uplink' = Tail(uplink)
    /\ LET m == Head(uplink) IN
       /\ svc' = CASE m.t = "bye" -> [home |-> 0, seq |-> 0, roster |-> NoListing]
                   [] m.t = "roster" /\ m.seq >= svc.seq ->
                          [svc EXCEPT !.seq = m.seq, !.roster = m.roster]
                   [] OTHER -> svc
       /\ receipt' = (receipt \/ m.t = "bye")
    /\ UNCHANGED <<enrolment, link, due, wake, kv, net, observed, used>>

\* load drops a watch whose phone is not in the file.
Loaded == [d \in Devices |->
              IF disk[d].role = "watch" /\ disk[disk[d].parent] = NoRow THEN NoRow ELSE disk[d]]

\* A restart.  The roster number is lost too when a backup older than it was
\* restored, or its record cannot be read.
Crash(lost) ==
    /\ used.loss < MaxLoss
    /\ used' = [used EXCEPT !.loss = @ + 1]
    /\ rows' = Loaded
    /\ code' = NoCode /\ offered' = {}
    /\ job' = [h \in Handlers |-> Idle]
    /\ due' = FALSE /\ wake' = FALSE
    /\ net' = NoConnection("check")
    /\ uplink' = <<>> /\ receipt' = FALSE
    /\ kv' = IF lost THEN [seq |-> 0, sum |-> NoListing] ELSE kv
    /\ UNCHANGED <<disk, link, svc, observed>>

-----------------------------------------------------------------------------
Requests(h) ==
    \/ \E role \in Roles, kind \in Kinds : Mint(h, role, kind)
    \/ RedeemSpokenCode(h)
    \/ \E d \in Phones, c \in 1..used.codes : CommitPairing(h, d, c)
    \/ \E d \in Phones, w \in Watches : AddWatch(h, w, d)
    \/ \E d \in Phones, role \in Roles : SetRole(h, d, role)
    \/ \E d \in Devices, atTheBox \in BOOLEAN : Revoke(h, d, atTheBox)

Finishes(h) ==
    \/ \E ok \in BOOLEAN : Save(h, ok)
    \/ Notify(h) \/ Decide(h) \/ MarkDue(h) \/ Show(h)

Sender ==
    \/ RunCheck \/ RunWakes
    \/ \E ok \in BOOLEAN : Hello(ok) \/ HelloOK(ok) \/ EndIfIdle(ok) \/ SendRoster(ok)
    \/ ListedRunsOut \/ TakeRoster \/ SendBye \/ FinishLink

Next ==
    \/ \E h \in Handlers : Requests(h) \/ Finishes(h)
    \/ WrongGuess \/ Expire
    \/ \E d \in Phones : Check(d) \/ Reconnect(d)
    \/ Sender \/ Renew \/ Service \/ Break
    \/ \E lost \in BOOLEAN : Crash(lost)

\* Each goroutine goes on, a code runs out and the renewal comes in the end;
\* nobody has to pair or guess, and no connection has to break.
Fairness ==
    /\ \A h \in Handlers : WF_vars(Finishes(h))
    /\ WF_vars(Sender)
    /\ WF_vars(ListedRunsOut)
    /\ WF_vars(Renew)
    /\ WF_vars(Expire)
    /\ WF_vars(Service)

Spec == Init /\ [][Next]_vars
FairSpec == Spec /\ Fairness

-----------------------------------------------------------------------------
(* Properties *)

\* A code enrols one phone, however many handshakes presented it before it was
\* spent (check and its commit callback).
OneCodeOnePhone == \A a, b \in spent : a[1] = b[1] => a[2] = b[2]

\* A box with phones has an owner, through racing requests, failed saves and
\* restarts, unless its last owner was removed at the box (pairingRoleLocked,
\* SetRole, Revoke).
OwnerRemains == (\E d \in Phones : rows[d] # NoRow) => Owners # {} \/ emptied

\* A device whose removal was reported done is gone, and stays gone after a
\* restart, until it pairs again (Revoke, save).
RevokedStaysGone == \A d \in gone : rows[d] = NoRow /\ disk[d] = NoRow

\* A watch in memory or on disk has the phone that vouches for it there too.
WatchHasItsPhone ==
    \A w \in Watches : /\ rows[w] # NoRow => rows[rows[w].parent] # NoRow
                       /\ disk[w] # NoRow => disk[disk[w].parent] # NoRow

\* A home named by the QR on the screen is not given up while the code is live:
\* the sender's decision to end an idle link races the request that shows the
\* code (endIfIdle, RosterChanged, Home).
ShownHomeStays == code.shown # 0 => link = [home |-> code.shown, ending |-> FALSE]

\* What the service holds once it has read what is on the way.
LastSent == IF uplink = <<>> THEN svc.roster ELSE uplink[Len(uplink)].roster

\* A roster the sender has not built yet is due, or the timer of the code it
\* listed runs: no change is forgotten between the request's mark and the
\* sender's snapshot (RosterChanged, takeRoster).
NoChangeIsForgotten ==
    net.pc = "up" /\ ~link.ending /\ (\A h \in Handlers : job[h].pc \in {"idle", "show"})
        => \/ RosterIsDue
           \/ net.listed \notin {0, code.id}
           \/ LastSent = Listing(link.home)

\* Once changes and losses stop, the service holds the roster of a box that
\* needs the link, also when the stored number was lost and the service's own
\* is ahead (bumpRoster), or the link was ending when the phone came (Run).
ServiceCatchesUp ==
    <>[](WantsLink
              => /\ link # NoLink /\ ~link.ending
                 /\ svc.home = link.home /\ svc.roster = Listing(link.home))

\* Once nothing needs the link, the home is deleted and the key with it, also
\* when a listed code ran out or was burned without a word (endIfIdle).
IdleLinkEnds == <>[](~WantsLink => link = NoLink)

\* The list of devices, in memory and on disk, stays usable: its rows are well
\* formed, it has an owner, and no watch outlives its phone.
RosterIsSound == TypeOK /\ OwnerRemains /\ WatchHasItsPhone

\* Once changes and losses stop, the cloud link is what the box needs: there with
\* the current roster, or gone with its home.
LinkSettles == ServiceCatchesUp /\ IdleLinkEnds
=============================================================================
