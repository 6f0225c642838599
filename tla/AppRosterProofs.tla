-------------------------- MODULE AppRosterProofs --------------------------
(***************************************************************************)
(* Safety of enrolment and of the cloud link for every set of phones,      *)
(* watches and handlers and every bound: the inductive invariant IInv, and *)
(* the properties of AppRoster that follow from it.                        *)
(***************************************************************************)
EXTENDS AppRoster, TLAPS

\* The rows in memory and on disk are a household; it has an owner until the
\* last one was removed at the box.
IRows ==
    /\ Household(rows) /\ Household(disk)
    /\ (HasOwner(rows) \/ emptied) /\ (HasOwner(disk) \/ emptied)

\* A code that was spent is not the live one and is never minted again.
ICodes ==
    /\ code.id <= used.codes
    /\ code = NoCode \/ (code.id # 0 /\ code.role # "none" /\ code.kind # "none")
    /\ code.shown # 0 => code.kind = "qr"
    /\ \A s \in spent : s[1] \in 1..used.codes /\ s[1] # code.id
    /\ \A h \in Handlers : job[h].code <= used.codes

\* A home on the screen is the link's.  While the sender has decided that
\* nothing needs the link, a code on the screen names no home yet, and the
\* request that minted it has still to tell the link.
IShown ==
    /\ code.shown # 0 => link = [home |-> code.shown, ending |-> FALSE]
    /\ net.idle /\ code.kind = "qr" =>
         /\ code.shown = 0
         /\ \A h \in Handlers : job[h].code = code.id => job[h].pc = "notify"

\* Without a connection nothing is on the way; only a link that ends says bye.
IQueue ==
    /\ net.pc \in {"check", "wait", "dial", "hello"} => uplink = <<>>
    /\ \A i \in 1..Len(uplink) : uplink[i].t = "bye" => link.ending

\* The numbers rise from what the service holds, along the messages on the way,
\* to the stored one.
INumbers ==
    /\ net.pc = "hello" => net.hello = kv.seq
    /\ net.pc \in {"up", "end", "send"} => svc.seq <= kv.seq
    /\ \A i \in 1..Len(uplink) : uplink[i].t = "roster" =>
         /\ svc.seq <= uplink[i].seq /\ uplink[i].seq <= kv.seq
         /\ \A j \in 1..i : uplink[j].t = "roster" => uplink[j].seq <= uplink[i].seq

\* The steps of a request that has changed something and not marked it yet.
Busy == {"save", "notify", "decide", "link", "mark"}

\* The last roster says what the rows and the code say now, and a code it lists
\* has its timer.
Current == LastSent = Listing(link.home) /\ (code.kind = "qr" => net.listed # 0)

\* A change is with its request, is due, waits for a timer, or has been sent.
IChange ==
    net.pc = "up" /\ ~ link.ending /\ (\A h \in Handlers : job[h].pc \notin Busy)
      => RosterIsDue \/ net.listed \notin {0, code.id} \/ Current

USE DEF enrolment, cloud, observed

-----------------------------------------------------------------------------
(* Types *)

Rows == [role : {"owner", "viewer", "watch", "none"}, epoch : Nat, parent : Phones \cup {NoOne}]
Codes == [id : Nat, role : {"owner", "viewer", "none"}, kind : {"qr", "spoken", "none"},
          tries : 0..(MaxTries - 1), shown : Nat]
Jobs == [pc : {"idle", "save", "notify", "decide", "link", "mark", "show"},
         code : Nat, gone : SUBSET Devices]
Links == [home : Nat, ending : BOOLEAN]
Nets == [pc : {"check", "wait", "dial", "hello", "up", "end", "send"}, home : Nat, hello : Nat,
         idle : BOOLEAN, force : BOOLEAN, listed : Nat, ranOut : BOOLEAN, bye : BOOLEAN]
Listings ==
    [devices : SUBSET [id : Devices, role : {"owner", "viewer", "watch", "none"}, epoch : Nat,
                       parent : {"owner", "viewer", "watch", "none"}],
     pending : SUBSET (Nat \X Nat)]
Numbers == [seq : Nat, sum : Listings]
Services == [home : Nat, seq : Nat, roster : Listings]
Messages == [t : {"roster", "bye"}, seq : Nat, roster : Listings]
Counts == [codes : Nat, homes : Nat, ops : 0..MaxOps, loss : 0..MaxLoss, fault : 0..MaxFault]

\* The type invariant, one variable at a time.
Types ==
    /\ rows \in [Devices -> Rows] /\ disk \in [Devices -> Rows]
    /\ code \in Codes /\ offered \subseteq Phones \X Nat
    /\ job \in [Handlers -> Jobs]
    /\ link \in Links /\ net \in Nets /\ kv \in Numbers /\ svc \in Services
    /\ uplink \in Seq(Messages) /\ Len(uplink) <= 2
    /\ spent \subseteq Nat \X Phones /\ gone \subseteq Devices
    /\ used \in Counts

\* The flags are Boolean.
Flags == due \in BOOLEAN /\ wake \in BOOLEAN /\ receipt \in BOOLEAN /\ emptied \in BOOLEAN

\* The inductive invariant.  The order of the numbers holds as long as every
\* number could be stored.
IInv ==
    /\ Types /\ Flags /\ IRows /\ ICodes /\ IShown /\ IQueue /\ RevokedStaysGone
    /\ used.fault = 0 => INumbers /\ IChange

\* The type invariant of the module is part of it.
LEMMA TypeParts == Types /\ Flags => TypeOK
  BY RosterAssumption, SMTT(30) DEF TypeOK, Types, Flags, Rows, Codes, Jobs, Links, Nets, Counts

\* A listing is one of the rows, the code and the home.
ListingOf(r, kind, id, home) ==
    [devices |-> {[id |-> d, role |-> r[d].role, epoch |-> r[d].epoch,
                   parent |-> IF d \in Watches THEN r[r[d].parent].role ELSE "none"] :
                  d \in {e \in {f \in Devices : r[f] # NoRow} :
                           e \in Watches => r[e].parent \in {f \in Devices : r[f] # NoRow}}},
     pending |-> IF kind = "qr" THEN {<<home, id>>} ELSE {}]

\* What a listing is built from.
LEMMA ListingIs ==
    /\ Listing(link.home) = ListingOf(rows, code.kind, code.id, link.home)
    /\ Listing(link.home)' = ListingOf(rows', code'.kind, code'.id, link'.home)
    /\ Listing(0) = ListingOf(rows, code.kind, code.id, 0)
  BY DEF Listing, ListingOf, Enrolled

\* It is well formed.
LEMMA ListingType ==
    ASSUME NEW r \in [Devices -> Rows], NEW kind, NEW id \in Nat, NEW home \in Nat
    PROVE  ListingOf(r, kind, id, home) \in Listings
  <1> DEFINE S == {e \in {f \in Devices : r[f] # NoRow} :
                           e \in Watches => r[e].parent \in {f \in Devices : r[f] # NoRow}}
             E(d) == [id |-> d, role |-> r[d].role, epoch |-> r[d].epoch,
                      parent |-> IF d \in Watches THEN r[r[d].parent].role ELSE "none"]
             R == [id : Devices, role : {"owner", "viewer", "watch", "none"}, epoch : Nat,
                   parent : {"owner", "viewer", "watch", "none"}]
             P == IF kind = "qr" THEN {<<home, id>>} ELSE {}
  <1>1. ASSUME NEW d \in S PROVE E(d) \in R
    <2>1. d \in Devices /\ (d \in Watches => r[d].parent \in Devices)
      OBVIOUS
    <2> QED
      BY <2>1 DEF Rows
  <1>2. {E(d) : d \in S} \in SUBSET R
    BY <1>1
  <1>3. P \in SUBSET (Nat \X Nat)
    OBVIOUS
  <1>4. ListingOf(r, kind, id, home) = [devices |-> {E(d) : d \in S}, pending |-> P]
    BY DEF ListingOf
  <1> HIDE DEF S, E, P
  <1> QED
    BY <1>2, <1>3, <1>4 DEF Listings

\* The values everything starts from.
LEMMA NoFacts ==
    /\ NoRow \in Rows /\ NoCode \in Codes /\ Idle \in Jobs /\ NoLink \in Links
    /\ NoListing \in Listings
    /\ \A pc \in {"check", "wait", "dial"} : NoConnection(pc) \in Nets
  BY RosterAssumption DEF NoRow, NoCode, Idle, NoLink, NoListing, NoConnection, Rows, Codes, Jobs,
     Links, Listings, Nets

-----------------------------------------------------------------------------
(* The rows and their owner *)

\* Who changes the rows, the file, or what was observed about them.
LEMMA RowFrame ==
    ASSUME Next
    PROVE  \/ \E h \in Handlers : \/ \E d \in Phones, c \in 1..used.codes : CommitPairing(h, d, c)
                                  \/ \E d \in Phones, w \in Watches : AddWatch(h, w, d)
                                  \/ \E d \in Phones, role \in Roles : SetRole(h, d, role)
                                  \/ \E d \in Devices, atTheBox \in BOOLEAN : Revoke(h, d, atTheBox)
                                  \/ \E ok \in BOOLEAN : Save(h, ok)
           \/ \E d \in Phones : Reconnect(d)
           \/ \E lost \in BOOLEAN : Crash(lost)
           \/ UNCHANGED <<rows, disk, gone, emptied>>
  BY DEF Next, Requests, Finishes, Sender, Mint, RedeemSpokenCode, Notify, Decide, MarkDue, Show,
     WrongGuess, Expire, Check, RunCheck, RunWakes, Hello, HelloOK, EndIfIdle, SendRoster,
     ListedRunsOut, TakeRoster, SendBye, FinishLink, Renew, Service, Break

\* A phone that is enrolled, with a role.
LEMMA PhoneEnrolled ==
    ASSUME NEW f, Household(f), NEW d \in Phones, f[d] = NoRow, NEW role \in {"owner", "viewer"},
           role = "owner" \/ \E e \in Phones : f[e].role = "owner"
    PROVE  LET g == [f EXCEPT ![d] = [role |-> role, epoch |-> 1, parent |-> NoOne]]
           IN  Household(g) /\ HasOwner(g)
  <1> DEFINE r == [role |-> role, epoch |-> 1, parent |-> NoOne]
             g == [f EXCEPT ![d] = r]
  <1>1. r \in Rows /\ r # NoRow /\ r.role = role /\ r.parent = NoOne
    BY DEF Rows, NoRow
  <1>2. f \in [Devices -> Rows] /\ d \in Devices /\ d \notin Watches
    BY RosterAssumption DEF Household, Rows, Devices
  <1>3. g \in [Devices -> Rows] /\ g[d] = r /\ \A e \in Devices : e # d => g[e] = f[e]
    BY <1>1, <1>2
  <1> HIDE DEF r, g
  <1>4. \A e \in Phones : g[e] = NoRow \/ (g[e].role \in {"owner", "viewer"} /\ g[e].parent = NoOne)
    BY <1>1, <1>2, <1>3 DEF Household, Devices
  <1>5. ASSUME NEW w \in Watches, g[w] # NoRow
        PROVE  g[w].role = "watch" /\ g[w].parent \in Phones /\ g[g[w].parent] # NoRow
    <2>1. g[w] = f[w] /\ f[w].role = "watch" /\ f[w].parent \in Phones /\ f[f[w].parent] # NoRow
      BY <1>2, <1>3, <1>5 DEF Household, Devices
    <2> QED
      BY <1>1, <1>2, <1>3, <2>1 DEF Devices
  <1>6. Household(g)
    BY <1>3, <1>4, <1>5 DEF Household, Rows
  <1>7. \E e \in Phones : g[e].role = "owner"
    <2>1. CASE role = "owner"
      BY <2>1, <1>1, <1>3
    <2>2. CASE \E e \in Phones : f[e].role = "owner"
      <3>1. PICK e \in Phones : f[e].role = "owner"
        BY <2>2
      <3>2. e # d
        BY <3>1 DEF NoRow
      <3> QED
        BY <3>1, <3>2, <1>3 DEF Devices
    <2> QED
      BY <2>1, <2>2
  <1> QED
    BY <1>6, <1>7 DEF g, r, HasOwner

\* A watch that joins the phone that vouches for it.
LEMMA WatchAdded ==
    ASSUME NEW f, Household(f), NEW w \in Watches, f[w] = NoRow, NEW d \in Phones, f[d] # NoRow
    PROVE  LET g == [f EXCEPT ![w] = [role |-> "watch", epoch |-> 1, parent |-> d]]
           IN  Household(g) /\ (HasOwner(f) => HasOwner(g))
  <1> DEFINE r == [role |-> "watch", epoch |-> 1, parent |-> d]
             g == [f EXCEPT ![w] = r]
  <1>1. r \in Rows /\ r # NoRow /\ r.role = "watch" /\ r.parent = d
    BY DEF Rows, NoRow
  <1>2. f \in [Devices -> Rows] /\ w \in Devices /\ w \notin Phones
    BY RosterAssumption DEF Household, Rows, Devices
  <1>3. g \in [Devices -> Rows] /\ g[w] = r /\ \A e \in Devices : e # w => g[e] = f[e]
    BY <1>1, <1>2
  <1> HIDE DEF r, g
  <1>4. \A e \in Phones : g[e] = f[e]
    BY <1>2, <1>3 DEF Devices
  <1>5. \A e \in Phones : g[e] = NoRow \/ (g[e].role \in {"owner", "viewer"} /\ g[e].parent = NoOne)
    BY <1>4 DEF Household
  <1>6. ASSUME NEW v \in Watches, g[v] # NoRow
        PROVE  g[v].role = "watch" /\ g[v].parent \in Phones /\ g[g[v].parent] # NoRow
    <2>1. CASE v = w
      BY <2>1, <1>1, <1>3, <1>4
    <2>2. CASE v # w
      BY <2>2, <1>3, <1>4, <1>6 DEF Household, Devices
    <2> QED
      BY <2>1, <2>2
  <1>7. Household(g)
    BY <1>3, <1>5, <1>6 DEF Household, Rows
  <1> QED
    BY <1>4, <1>7 DEF g, r, HasOwner

\* Rows that change their epoch or the role of phones.
LEMMA RowsChanged ==
    ASSUME NEW f, Household(f), NEW g, g \in [Devices -> Rows],
           \A e \in Devices : f[e] = NoRow <=> g[e] = NoRow,
           \A e \in Devices : g[e].parent = f[e].parent,
           \A e \in Watches : g[e].role = f[e].role,
           \A e \in Phones : g[e] = NoRow \/ g[e].role \in {"owner", "viewer"}
    PROVE  Household(g)
  <1>1. \A e \in Phones : g[e] = NoRow \/ (g[e].role \in {"owner", "viewer"} /\ g[e].parent = NoOne)
    BY DEF Household, Devices
  <1>2. ASSUME NEW w \in Watches, g[w] # NoRow
        PROVE  g[w].role = "watch" /\ g[w].parent \in Phones /\ g[g[w].parent] # NoRow
    BY <1>2 DEF Household, Devices
  <1> QED
    BY <1>1, <1>2 DEF Household, Rows

\* Rows that are removed, the watches of a phone with it.
LEMMA RowsRemoved ==
    ASSUME NEW f, Household(f), NEW g, NEW R,
           g = [e \in Devices |-> IF e \in R THEN NoRow ELSE f[e]],
           \A e \in Watches : f[e].parent \in R => e \in R
    PROVE  Household(g)
  <1>1. f \in [Devices -> Rows] /\ NoRow \in Rows
    BY NoFacts DEF Household, Rows
  <1>2. g \in [Devices -> Rows] /\ \A e \in Devices : g[e] = IF e \in R THEN NoRow ELSE f[e]
    BY <1>1
  <1>3. \A e \in Phones : g[e] = NoRow \/ (g[e].role \in {"owner", "viewer"} /\ g[e].parent = NoOne)
    BY <1>2 DEF Household, Devices
  <1>4. ASSUME NEW w \in Watches, g[w] # NoRow
        PROVE  g[w].role = "watch" /\ g[w].parent \in Phones /\ g[g[w].parent] # NoRow
    BY <1>2, <1>4 DEF Household, Devices
  <1> QED
    BY <1>2, <1>3, <1>4 DEF Household, Rows

\* The owners are phones.
LEMMA OwnersArePhones ==
    ASSUME Household(rows)
    PROVE  /\ Owners = {d \in Phones : rows[d].role = "owner"}
           /\ \A d \in Phones : rows[d].parent = NoOne
           /\ \A e \in Devices : rows[e].parent \in Phones => e \in Watches /\ rows[e] # NoRow
  <1>1. \A w \in Watches : rows[w].role # "owner"
    BY DEF Household, NoRow
  <1>2. \A d \in Devices : rows[d].role = "owner" => rows[d] # NoRow
    BY DEF NoRow
  <1>3. \A d \in Phones : rows[d].parent = NoOne
    BY DEF Household, NoRow
  <1>4. NoRow.parent = NoOne /\ NoOne \notin Phones
    BY RosterAssumption DEF NoRow
  <1>5. Owners = {d \in Phones : rows[d].role = "owner"}
    BY <1>1, <1>2 DEF Owners, Enrolled, Devices
  <1> QED
    BY <1>3, <1>4, <1>5 DEF Devices

\* The pairing of a phone.
LEMMA CommitRows ==
    ASSUME Types, IRows, ICodes, RevokedStaysGone, NEW h \in Handlers, NEW d \in Phones,
           NEW c \in 1..used.codes, CommitPairing(h, d, c)
    PROVE  IRows' /\ RevokedStaysGone' /\ gone' \subseteq Devices
  <1>1. disk' = disk /\ emptied' = emptied
    BY DEF CommitPairing
  <1>2. CASE ~ (d \notin Enrolled /\ StillThisCode(c))
    <2>1. UNCHANGED <<rows, gone>>
      BY <1>2 DEF CommitPairing
    <2> QED
      BY <1>1, <2>1 DEF IRows, RevokedStaysGone, Types
  <1>3. CASE d \notin Enrolled /\ StillThisCode(c)
    <2>1. /\ rows' = [rows EXCEPT ![d] = [role |-> PairingRole, epoch |-> 1, parent |-> NoOne]]
          /\ gone' = gone \ {d}
      BY <1>3 DEF CommitPairing
    <2>2. rows[d] = NoRow
      BY <1>3 DEF Enrolled, Devices
    <2>3. code.role \in {"owner", "viewer"}
      <3>1. c # 0 /\ code.id = c /\ code \in Codes
        BY <1>3 DEF StillThisCode, Types, Counts
      <3> QED
        BY <3>1 DEF ICodes, Codes, NoCode
    <2>4. PairingRole \in {"owner", "viewer"}
      BY <2>3 DEF PairingRole
    <2>5. PairingRole = "owner" \/ \E e \in Phones : rows[e].role = "owner"
      BY OwnersArePhones DEF PairingRole, IRows
    <2>6. Household(rows') /\ HasOwner(rows')
      BY <2>1, <2>2, <2>4, <2>5, PhoneEnrolled DEF IRows
    <2>7. \A e \in Devices \ {d} : rows'[e] = rows[e]
      BY <2>1 DEF Types
    <2>8. RevokedStaysGone' /\ gone' \subseteq Devices
      BY <1>1, <2>1, <2>7 DEF RevokedStaysGone, Types
    <2> QED
      BY <1>1, <2>6, <2>8 DEF IRows
  <1> QED
    BY <1>2, <1>3

\* A watch.
LEMMA AddRows ==
    ASSUME Types, IRows, RevokedStaysGone, NEW h \in Handlers, NEW d \in Phones,
           NEW w \in Watches, AddWatch(h, w, d)
    PROVE  IRows' /\ RevokedStaysGone' /\ gone' \subseteq Devices
  <1>1. /\ disk' = disk /\ emptied' = emptied /\ gone' = gone \ {w}
        /\ rows' = [rows EXCEPT ![w] = [role |-> "watch", epoch |-> 1, parent |-> d]]
    BY DEF AddWatch
  <1>2. rows[w] = NoRow /\ rows[d] # NoRow
    BY DEF AddWatch, Owners, Enrolled, Devices
  <1>3. Household(rows') /\ (HasOwner(rows) => HasOwner(rows'))
    BY <1>1, <1>2, WatchAdded DEF IRows
  <1>4. \A e \in Devices \ {w} : rows'[e] = rows[e]
    BY <1>1 DEF Types
  <1>5. RevokedStaysGone' /\ gone' \subseteq Devices
    BY <1>1, <1>4 DEF RevokedStaysGone, Types
  <1> QED
    BY <1>1, <1>3, <1>5 DEF IRows

\* A role: the guard keeps the last owner.
LEMMA RoleRows ==
    ASSUME Types, IRows, RevokedStaysGone, NEW h \in Handlers, NEW d \in Phones,
           NEW role \in Roles, SetRole(h, d, role)
    PROVE  IRows' /\ RevokedStaysGone' /\ gone' \subseteq Devices
  <1>1. /\ disk' = disk /\ emptied' = emptied /\ gone' = gone
        /\ rows' = [e \in Devices |->
                   IF e = d THEN [rows[e] EXCEPT !.role = role, !.epoch = @ + 1]
                   ELSE IF rows[e].parent = d THEN [rows[e] EXCEPT !.epoch = @ + 1]
                   ELSE rows[e]]
        /\ rows[d] # NoRow /\ Owners # {d} /\ d \in Devices
    BY DEF SetRole, Enrolled
  <1>2. Household(rows) /\ rows \in [Devices -> Rows] /\ role \in {"owner", "viewer"}
    BY RosterAssumption DEF IRows, Types
  <1>3. ASSUME NEW e \in Devices
        PROVE  /\ rows'[e] \in Rows /\ (rows[e] = NoRow <=> rows'[e] = NoRow)
               /\ rows'[e].parent = rows[e].parent
               /\ e # d => rows'[e].role = rows[e].role
               /\ e = d => rows'[e].role = role
    <2>1. CASE e = d
      <3>1. rows'[e] = [rows[e] EXCEPT !.role = role, !.epoch = @ + 1] /\ rows[e] \in Rows
        BY <1>1, <1>2, <2>1
      <3>2. rows'[e] \in Rows /\ rows'[e].role = role /\ rows'[e].parent = rows[e].parent
        <4>1. role \in {"owner", "viewer"}
          BY <1>2
        <4>2. rows'[e] = [role |-> role, epoch |-> rows[e].epoch + 1, parent |-> rows[e].parent]
          BY <3>1 DEF Rows
        <4>3. rows[e].epoch + 1 \in Nat /\ rows[e].parent \in Phones \cup {NoOne}
          BY <3>1 DEF Rows
        <4> QED
          BY <4>1, <4>2, <4>3 DEF Rows
      <3>3. rows'[e] # NoRow /\ rows[e] # NoRow
        BY <1>1, <1>2, <2>1, <3>2 DEF NoRow
      <3> QED
        BY <2>1, <3>2, <3>3
    <2>2. CASE e # d /\ rows[e].parent = d
      <3>1. rows'[e] = [rows[e] EXCEPT !.epoch = @ + 1] /\ rows[e] \in Rows
        BY <1>1, <1>2, <2>2
      <3>2. rows'[e] \in Rows /\ rows'[e].role = rows[e].role /\ rows'[e].parent = rows[e].parent
        BY <3>1 DEF Rows
      <3>3. rows'[e] # NoRow /\ rows[e] # NoRow
        BY RosterAssumption, <2>2, <3>2 DEF NoRow
      <3> QED
        BY <2>2, <3>2, <3>3
    <2>3. CASE e # d /\ rows[e].parent # d
      BY <1>1, <1>2, <2>3
    <2> QED
      BY <2>1, <2>2, <2>3
  <1>4. rows' \in [Devices -> Rows]
    BY <1>1, <1>3
  <1>5. Household(rows')
    <2>1. \A e \in Devices : rows[e] = NoRow <=> rows'[e] = NoRow
      BY <1>3
    <2>2. \A e \in Devices : rows'[e].parent = rows[e].parent
      BY <1>3
    <2>3. \A e \in Watches : rows'[e].role = rows[e].role
      BY <1>3, RosterAssumption DEF Devices
    <2>4. \A e \in Phones : rows'[e] = NoRow \/ rows'[e].role \in {"owner", "viewer"}
      BY <1>2, <1>3 DEF Household, Devices
    <2> QED
      BY <1>2, <1>4, <2>1, <2>2, <2>3, <2>4, RowsChanged
  <1>6. ASSUME HasOwner(rows) PROVE HasOwner(rows')
    <2>1. \E e \in Phones : rows[e].role = "owner"
      BY <1>1, <1>6 DEF HasOwner
    <2>2. \E e \in Phones : rows[e].role = "owner" /\ e # d
      BY <2>1, <1>1, <1>2, OwnersArePhones
    <2> QED
      BY <2>2, <1>3 DEF HasOwner, Devices
  <1>7. RevokedStaysGone' /\ gone' \subseteq Devices
    BY <1>1, <1>3 DEF RevokedStaysGone, Types
  <1> QED
    BY <1>1, <1>5, <1>6, <1>7 DEF IRows

\* A removal: the last owner goes at the box only, and that is remembered.
LEMMA RevokeRows ==
    ASSUME Types, IRows, RevokedStaysGone, NEW h \in Handlers, NEW d \in Devices, NEW atTheBox,
           Revoke(h, d, atTheBox)
    PROVE  IRows' /\ RevokedStaysGone' /\ gone' \subseteq Devices
  <1>1. /\ disk' = disk /\ gone' = gone
        /\ rows' = [e \in Devices |-> IF e \in RemovedWith(d) THEN NoRow ELSE rows[e]]
    BY DEF Revoke
  <1>2. emptied' = (emptied \/ Owners = {d})
    BY DEF Revoke
  <1>3. Household(rows)
    BY DEF IRows
  <1>4. ASSUME NEW e \in Watches, rows[e].parent \in RemovedWith(d) PROVE e \in RemovedWith(d)
    <2>1. rows[e].parent = d \/ rows[rows[e].parent].parent = d
      BY <1>4 DEF RemovedWith
    <2>2. rows[e] # NoRow
      BY <1>4, RosterAssumption DEF RemovedWith, Enrolled, NoRow, Devices
    <2>3. rows[e].parent \in Phones
      BY <1>3, <2>2 DEF Household
    <2>4. rows[rows[e].parent].parent = NoOne /\ d # NoOne
      BY <1>3, <2>3, OwnersArePhones, RosterAssumption DEF Devices
    <2> QED
      BY <2>1, <2>2, <2>4 DEF RemovedWith, Enrolled, Devices
  <1>5. Household(rows')
    BY <1>1, <1>3, <1>4, RowsRemoved
  <1>6. \A e \in Devices : rows'[e] = IF e \in RemovedWith(d) THEN NoRow ELSE rows[e]
    BY <1>1
  <1>7. ASSUME HasOwner(rows), Owners # {d} PROVE HasOwner(rows')
    <2>1. SUFFICES ASSUME \E e \in Phones : rows'[e] # NoRow
                   PROVE  \E e \in Phones : rows'[e].role = "owner"
      BY DEF HasOwner
    <2>2. \E e \in Phones : rows[e].role = "owner"
      BY <1>6, <1>7, <2>1 DEF HasOwner, Devices
    <2>3. PICK e \in Phones : rows[e].role = "owner" /\ e # d
      BY <1>3, <1>7, <2>2, OwnersArePhones
    <2>4. e \notin RemovedWith(d)
      BY <1>3, <2>3, OwnersArePhones, RosterAssumption DEF RemovedWith, Devices
    <2> QED
      BY <1>6, <2>3, <2>4 DEF Devices
  <1>8. HasOwner(rows') \/ emptied'
    <2>1. HasOwner(rows) \/ emptied
      BY DEF IRows
    <2> QED
      BY <1>2, <1>7, <2>1, Zenon
  <1>9. HasOwner(disk') \/ emptied'
    <2>1. HasOwner(disk) \/ emptied
      BY DEF IRows
    <2>2. HasOwner(disk') <=> HasOwner(disk)
      BY <1>1
    <2> QED
      BY <1>2, <2>1, <2>2, Zenon
  <1>10. RevokedStaysGone' /\ gone' \subseteq Devices
    BY <1>1, <1>6 DEF RevokedStaysGone, Types
  <1>11. Household(disk')
    BY <1>1 DEF IRows
  <1> QED
    BY <1>5, <1>8, <1>9, <1>10, <1>11 DEF IRows

\* Every step keeps the household, its owner, and who is gone.
LEMMA RowStep ==
    ASSUME Types, IRows, ICodes, RevokedStaysGone, Next
    PROVE  IRows' /\ RevokedStaysGone' /\ gone' \subseteq Devices
  <1>1. ASSUME NEW h \in Handlers, NEW ok \in BOOLEAN, Save(h, ok)
        PROVE  IRows' /\ RevokedStaysGone' /\ gone' \subseteq Devices
    <2>1. rows' = rows /\ emptied' = emptied
      BY <1>1 DEF Save
    <2>2. CASE ok
      <3>1. disk' = rows /\ gone' = gone \cup (job[h].gone \ Enrolled)
        BY <1>1, <2>2 DEF Save, SavedBy
      <3>2. job[h].gone \subseteq Devices
        BY DEF Types, Jobs
      <3>3. RevokedStaysGone' /\ gone' \subseteq Devices
        BY <2>1, <3>1, <3>2 DEF RevokedStaysGone, Enrolled, Types
      <3> QED
        BY <2>1, <3>1, <3>3 DEF IRows
    <2>3. CASE ~ ok
      <3>1. disk' = disk /\ gone' = gone
        BY <1>1, <2>3 DEF Save
      <3> QED
        BY <2>1, <3>1 DEF IRows, RevokedStaysGone, Types
    <2> QED
      BY <2>2, <2>3
  <1>2. ASSUME NEW d \in Phones, Reconnect(d)
        PROVE  IRows' /\ RevokedStaysGone' /\ gone' \subseteq Devices
    <2>1. disk' = rows /\ rows' = rows /\ gone' = gone /\ emptied' = emptied
      BY <1>2 DEF Reconnect
    <2> QED
      BY <2>1 DEF IRows, RevokedStaysGone, Types
  <1>3. ASSUME NEW lost \in BOOLEAN, Crash(lost)
        PROVE  IRows' /\ RevokedStaysGone' /\ gone' \subseteq Devices
    <2>1. rows' = Loaded /\ disk' = disk /\ gone' = gone /\ emptied' = emptied
      BY <1>3 DEF Crash
    <2>2. Loaded = disk
      <3>1. disk \in [Devices -> Rows] /\ Household(disk)
        BY DEF Types, IRows
      <3>2. ASSUME NEW d \in Devices PROVE ~ (disk[d].role = "watch" /\ disk[disk[d].parent] = NoRow)
        BY <3>1 DEF Household, Devices, NoRow
      <3> QED
        BY <3>1, <3>2 DEF Loaded
    <2> QED
      BY <2>1, <2>2 DEF IRows, RevokedStaysGone, Types
  <1>4. CASE UNCHANGED <<rows, disk, gone, emptied>>
    BY <1>4 DEF IRows, RevokedStaysGone, Types
  <1> QED
    BY <1>1, <1>2, <1>3, <1>4, RowFrame, CommitRows, AddRows, RoleRows, RevokeRows

-----------------------------------------------------------------------------
(* The other types *)

\* A change is counted.
LEMMA OperationUsed ==
    ASSUME Types, Operation(used)
    PROVE  used' \in Counts /\ used'.codes = used.codes /\ used'.fault = used.fault
  <1>1. used \in Counts /\ used.ops < MaxOps /\ used' = [used EXCEPT !.ops = @ + 1]
    BY DEF Types, Operation
  <1>2. used.ops + 1 \in 0..MaxOps
    BY <1>1, RosterAssumption DEF Counts
  <1> QED
    BY <1>1, <1>2 DEF Counts

\* So is one that mints a code.
LEMMA OperationMints ==
    ASSUME Types, Operation([used EXCEPT !.codes = used.codes + 1])
    PROVE  used' \in Counts /\ used'.codes = used.codes + 1 /\ used'.fault = used.fault
  <1>1. /\ used \in Counts /\ used.ops < MaxOps
        /\ used' = [used EXCEPT !.codes = used.codes + 1, !.ops = @ + 1]
    BY DEF Types, Operation, Counts
  <1>2. used.ops + 1 \in 0..MaxOps /\ used.codes + 1 \in Nat
    BY <1>1, RosterAssumption DEF Counts
  <1> QED
    BY <1>1, <1>2 DEF Counts

\* A failed write is.
LEMMA WriteUsed ==
    ASSUME Types, NEW ok \in BOOLEAN, Write(ok)
    PROVE  /\ used' \in Counts /\ used'.codes = used.codes
           /\ used'.fault = 0 => used.fault = 0 /\ ok
  <1>1. used \in Counts
    BY DEF Types
  <1>2. CASE ok
    <2>1. used' = used
      BY <1>2 DEF Write
    <2> QED
      BY <1>1, <1>2, <2>1
  <1>3. CASE ~ ok
    <2>1. used.fault < MaxFault /\ used' = [used EXCEPT !.fault = @ + 1]
      BY <1>3 DEF Write
    <2>2. used.fault + 1 \in 0..MaxFault /\ used.fault + 1 # 0
      BY <1>1, <2>1, RosterAssumption DEF Counts
    <2> QED
      BY <1>1, <2>1, <2>2 DEF Counts
  <1> QED
    BY <1>2, <1>3

\* A link that is made has a home of its own, and one that is there stays.
LEMMA LinkMade ==
    ASSUME Types, MakeLink \/ UNCHANGED <<link, used>>
    PROVE  /\ used' \in Counts /\ used'.codes = used.codes /\ used'.fault = used.fault
           /\ link' \in Links /\ (link # NoLink => link' = link) /\ link'.ending = link.ending
  <1>1. used \in Counts /\ link \in Links
    BY DEF Types
  <1>2. CASE UNCHANGED <<link, used>>
    BY <1>1, <1>2
  <1>3. CASE MakeLink /\ link = NoLink /\ Available
    <2>1. used' = [used EXCEPT !.homes = @ + 1] /\ link' = [home |-> used'.homes, ending |-> FALSE]
      BY <1>3 DEF MakeLink
    <2>2. used' \in Counts /\ used'.codes = used.codes /\ used'.fault = used.fault
      BY <1>1, <2>1 DEF Counts
    <2>3. link' \in Links /\ link'.ending = FALSE
      BY <2>1, <2>2 DEF Links, Counts
    <2> QED
      BY <1>3, <2>2, <2>3 DEF NoLink
  <1> QED
    BY <1>2, <1>3 DEF MakeLink

\* A restart and a lost connection are counted.
LEMMA LossUsed ==
    ASSUME Types, used.loss < MaxLoss, used' = [used EXCEPT !.loss = @ + 1]
    PROVE  used' \in Counts /\ used'.codes = used.codes /\ used'.fault = used.fault
  <1>1. used \in Counts
    BY DEF Types
  <1>2. used.loss + 1 \in 0..MaxLoss
    BY <1>1, RosterAssumption DEF Counts
  <1> QED
    BY <1>1, <1>2 DEF Counts

\* The bounds, the codes minted so far, and whether a write has failed.
LEMMA UsedStep ==
    ASSUME Types, Next
    PROVE  /\ used' \in Counts
           /\ used'.fault = 0 => used.fault = 0
           /\ \/ used'.codes = used.codes
              \/ \E h \in Handlers : \/ \E role \in Roles, kind \in Kinds : Mint(h, role, kind)
                                     \/ RedeemSpokenCode(h)
  <1>1. ASSUME NEW h \in Handlers,
               \/ \E role \in Roles, kind \in Kinds : Mint(h, role, kind)
               \/ RedeemSpokenCode(h)
        PROVE  used' \in Counts /\ used'.fault = used.fault
    <2>1. Operation([used EXCEPT !.codes = used.codes + 1])
      BY <1>1 DEF Mint, RedeemSpokenCode
    <2> QED
      BY <2>1, OperationMints
  <1>2. ASSUME Operation(used) \/ used' = used
        PROVE  used' \in Counts /\ used'.fault = used.fault /\ used'.codes = used.codes
    BY <1>2, OperationUsed DEF Types
  <1>3. ASSUME NEW ok \in BOOLEAN, Write(ok)
        PROVE  /\ used' \in Counts /\ used'.codes = used.codes
               /\ used'.fault = 0 => used.fault = 0
    BY <1>3, WriteUsed
  <1>4. ASSUME MakeLink \/ UNCHANGED <<link, used>>
        PROVE  used' \in Counts /\ used'.fault = used.fault /\ used'.codes = used.codes
    BY <1>4, LinkMade
  <1>5. ASSUME used.loss < MaxLoss, used' = [used EXCEPT !.loss = @ + 1]
        PROVE  used' \in Counts /\ used'.fault = used.fault /\ used'.codes = used.codes
    BY <1>5, LossUsed
  <1>6. \/ \E h \in Handlers : \/ \E role \in Roles, kind \in Kinds : Mint(h, role, kind)
                               \/ RedeemSpokenCode(h)
        \/ Operation(used) \/ used' = used
        \/ \E ok \in BOOLEAN : Write(ok)
        \/ MakeLink
        \/ used.loss < MaxLoss /\ used' = [used EXCEPT !.loss = @ + 1]
    BY ZenonT(40) DEF Next, Requests, Finishes, Sender, CommitPairing, AddWatch, SetRole, Revoke, Save, Notify,
       Decide, MarkDue, Show, WrongGuess, Expire, Crash,
       Check, Reconnect, RunCheck, RunWakes, Hello, HelloOK, EndIfIdle, SendRoster,
       ListedRunsOut, TakeRoster, SendBye, FinishLink, Renew, Service, Break
  <1> QED
    BY <1>1, <1>2, <1>3, <1>4, <1>5, <1>6

\* Who changes the code or what was spent.
LEMMA CodeFrame ==
    ASSUME Next
    PROVE  \/ \E h \in Handlers : \/ \E role \in Roles, kind \in Kinds : Mint(h, role, kind)
                                  \/ RedeemSpokenCode(h)
                                  \/ \E d \in Phones, c \in 1..used.codes : CommitPairing(h, d, c)
                                  \/ Show(h)
           \/ WrongGuess \/ Expire
           \/ \E lost \in BOOLEAN : Crash(lost)
           \/ UNCHANGED <<code, spent>>
  BY ZenonT(40) DEF Next, Requests, Finishes, Sender, AddWatch, SetRole, Revoke, Save, Notify, Decide, MarkDue,
     Check, Reconnect, RunCheck, RunWakes, Hello, HelloOK, EndIfIdle, SendRoster,
     ListedRunsOut, TakeRoster, SendBye, FinishLink, Renew, Service, Break

\* A request that starts.
LEMMA StartsJob ==
    ASSUME Types, NEW h \in Handlers, NEW pc \in {"save", "notify"}, NEW c \in Nat,
           NEW removed \in SUBSET Devices, Starts(h, pc, c, removed)
    PROVE  /\ job' \in [Handlers -> Jobs]
           /\ job'[h].pc = pc /\ job'[h].code = c
           /\ \A g \in Handlers \ {h} : job'[g] = job[g]
  <1>1. job \in [Handlers -> Jobs]
    BY DEF Types
  <1>2. [pc |-> pc, code |-> c, gone |-> removed] \in Jobs
    BY DEF Jobs
  <1>3. job' = [job EXCEPT ![h] = [pc |-> pc, code |-> c, gone |-> removed]]
    BY DEF Starts
  <1> QED
    BY <1>1, <1>2, <1>3

\* A request that goes on: its code stays with it until it is done.
LEMMA FinishesJob ==
    ASSUME Types, NEW h \in Handlers, Finishes(h)
    PROVE  /\ job' \in [Handlers -> Jobs]
           /\ job'[h].code \in {0, job[h].code}
           /\ \A g \in Handlers \ {h} : job'[g] = job[g]
  <1>1. job \in [Handlers -> Jobs] /\ job[h] \in Jobs /\ Idle \in Jobs /\ Idle.code = 0
    BY NoFacts DEF Types, Idle
  <1>2. ASSUME NEW r \in Jobs, r.code \in {0, job[h].code}, job' = [job EXCEPT ![h] = r]
        PROVE  /\ job' \in [Handlers -> Jobs]
               /\ job'[h].code \in {0, job[h].code}
               /\ \A g \in Handlers \ {h} : job'[g] = job[g]
    BY <1>1, <1>2
  <1>3. ASSUME NEW ok \in BOOLEAN, Save(h, ok)
        PROVE  \E r \in Jobs : r.code \in {0, job[h].code} /\ job' = [job EXCEPT ![h] = r]
    <2>1. job' = [job EXCEPT ![h].pc = "notify", ![h].gone = {}]
      BY <1>3 DEF Save
    <2>2. [pc |-> "notify", code |-> job[h].code, gone |-> {}] \in Jobs
      BY <1>1 DEF Jobs
    <2>3. job'[h] = [pc |-> "notify", code |-> job[h].code, gone |-> {}]
      <3>1. job'[h] = [job[h] EXCEPT !.pc = "notify", !.gone = {}]
        BY <1>1, <2>1
      <3> QED
        BY <1>1, <3>1 DEF Jobs
    <2>4. /\ DOMAIN job' = Handlers /\ job' = [g \in DOMAIN job' |-> job'[g]]
          /\ \A g \in Handlers \ {h} : job'[g] = job[g]
      BY <1>1, <2>1
    <2>5. job' = [job EXCEPT ![h] = [pc |-> "notify", code |-> job[h].code, gone |-> {}]]
      BY <1>1, <2>3, <2>4
    <2> QED
      BY <2>2, <2>5
  <1>4. ASSUME Notify(h)
        PROVE  \E r \in Jobs : r.code \in {0, job[h].code} /\ job' = [job EXCEPT ![h] = r]
    <2>1. job' = [job EXCEPT ![h].pc = "decide"]
      BY <1>4 DEF Notify
    <2>2. [job[h] EXCEPT !.pc = "decide"] \in Jobs /\ [job[h] EXCEPT !.pc = "decide"].code = job[h].code
      BY <1>1 DEF Jobs
    <2> QED
      BY <1>1, <2>1, <2>2
  <1>5. ASSUME Decide(h)
        PROVE  \E r \in Jobs : r.code \in {0, job[h].code} /\ job' = [job EXCEPT ![h] = r]
    <2>1. \E pc \in {"link", "mark"} : job' = [job EXCEPT ![h].pc = pc]
      BY <1>5 DEF Decide
    <2>2. PICK pc \in {"link", "mark"} : job' = [job EXCEPT ![h].pc = pc]
      BY <2>1
    <2>3. [job[h] EXCEPT !.pc = pc] \in Jobs /\ [job[h] EXCEPT !.pc = pc].code = job[h].code
      BY <1>1 DEF Jobs
    <2> QED
      BY <1>1, <2>2, <2>3
  <1>6. ASSUME MarkDue(h)
        PROVE  \E r \in Jobs : r.code \in {0, job[h].code} /\ job' = [job EXCEPT ![h] = r]
    <2>1. job' = [job EXCEPT ![h] = IF job[h].code = 0 THEN Idle ELSE [job[h] EXCEPT !.pc = "show"]]
      BY <1>1, <1>6 DEF MarkDue
    <2>2. [job[h] EXCEPT !.pc = "show"] \in Jobs /\ [job[h] EXCEPT !.pc = "show"].code = job[h].code
      BY <1>1 DEF Jobs
    <2> QED
      BY <1>1, <2>1, <2>2
  <1>7. ASSUME Show(h)
        PROVE  \E r \in Jobs : r.code \in {0, job[h].code} /\ job' = [job EXCEPT ![h] = r]
    BY <1>1, <1>7 DEF Show
  <1> QED
    BY <1>2, <1>3, <1>4, <1>5, <1>6, <1>7 DEF Finishes

\* What a step does to the requests: one starts, with a new code or without,
\* one goes on, or all are lost.
LEMMA JobStep ==
    ASSUME Types, Next
    PROVE  /\ job' \in [Handlers -> Jobs]
           /\ \A g \in Handlers :
                \/ job'[g].code = 0 \/ job'[g] = job[g]
                \/ Finishes(g) /\ job'[g].code = job[g].code
                \/ /\ job'[g].pc = "notify" /\ job'[g].code = used.codes + 1
                   /\ \/ \E role \in Roles, kind \in Kinds : Mint(g, role, kind)
                      \/ RedeemSpokenCode(g)
  <1> DEFINE Goes(g) == \/ job'[g].code = 0 \/ job'[g] = job[g]
                        \/ Finishes(g) /\ job'[g].code = job[g].code
  <1>1. used.codes + 1 \in Nat /\ job \in [Handlers -> Jobs]
    BY DEF Types, Counts
  <1>2. ASSUME NEW h \in Handlers, NEW role \in Roles, NEW kind \in Kinds, Mint(h, role, kind)
        PROVE  /\ job' \in [Handlers -> Jobs]
               /\ job'[h].pc = "notify" /\ job'[h].code = used.codes + 1
               /\ \A g \in Handlers \ {h} : job'[g] = job[g]
    BY <1>1, <1>2, StartsJob DEF Mint
  <1>3. ASSUME NEW h \in Handlers, RedeemSpokenCode(h)
        PROVE  /\ job' \in [Handlers -> Jobs]
               /\ job'[h].pc = "notify" /\ job'[h].code = used.codes + 1
               /\ \A g \in Handlers \ {h} : job'[g] = job[g]
    BY <1>1, <1>3, StartsJob DEF RedeemSpokenCode
  <1>4. ASSUME NEW h \in Handlers, NEW d, NEW c, CommitPairing(h, d, c)
        PROVE  job' \in [Handlers -> Jobs] /\ \A g \in Handlers : Goes(g)
    <2>1. job' = job \/ Starts(h, "save", 0, {})
      BY <1>4 DEF CommitPairing
    <2> QED
      BY <1>1, <2>1, StartsJob
  <1>5. ASSUME NEW h \in Handlers,
               \/ \E d \in Phones, w \in Watches : AddWatch(h, w, d)
               \/ \E d \in Phones, role \in Roles : SetRole(h, d, role)
        PROVE  job' \in [Handlers -> Jobs] /\ \A g \in Handlers : Goes(g)
    <2>1. Starts(h, "save", 0, {})
      BY <1>5 DEF AddWatch, SetRole
    <2> QED
      BY <2>1, StartsJob
  <1>6. ASSUME NEW h \in Handlers, NEW d, NEW atTheBox, Revoke(h, d, atTheBox)
        PROVE  job' \in [Handlers -> Jobs] /\ \A g \in Handlers : Goes(g)
    <2>1. Starts(h, "save", 0, RemovedWith(d)) /\ RemovedWith(d) \in SUBSET Devices
      BY <1>6 DEF Revoke, RemovedWith, Enrolled
    <2> QED
      BY <2>1, StartsJob
  <1>7. ASSUME NEW h \in Handlers, Finishes(h)
        PROVE  job' \in [Handlers -> Jobs] /\ \A g \in Handlers : Goes(g)
    BY <1>7, FinishesJob
  <1>8. ASSUME NEW lost, Crash(lost)
        PROVE  job' \in [Handlers -> Jobs] /\ \A g \in Handlers : Goes(g)
    BY <1>8, NoFacts DEF Crash, Idle
  <1>9. ASSUME UNCHANGED job
        PROVE  job' \in [Handlers -> Jobs] /\ \A g \in Handlers : Goes(g)
    BY <1>1, <1>9
  <1>10. \/ \E h \in Handlers : Requests(h) \/ Finishes(h)
         \/ \E lost \in BOOLEAN : Crash(lost)
         \/ UNCHANGED job
    BY DEF Next, WrongGuess, Expire, Check, Reconnect, Sender, Renew, Service, Break,
       RunCheck, RunWakes, Hello, HelloOK, EndIfIdle, SendRoster, ListedRunsOut, TakeRoster,
       SendBye, FinishLink
  <1>11. CASE \E h \in Handlers : Requests(h) \/ Finishes(h)
    <2>1. PICK h \in Handlers : Requests(h) \/ Finishes(h)
      BY <1>11
    <2>2. CASE (\E role \in Roles, kind \in Kinds : Mint(h, role, kind)) \/ RedeemSpokenCode(h)
      BY <1>2, <1>3, <2>2
    <2>3. CASE ~ ((\E role \in Roles, kind \in Kinds : Mint(h, role, kind)) \/ RedeemSpokenCode(h))
      BY <1>4, <1>5, <1>6, <1>7, <2>1, <2>3 DEF Requests
    <2> QED
      BY <2>2, <2>3
  <1> QED
    BY <1>8, <1>9, <1>10, <1>11

\* The code, what was spent, and who offered which code.
LEMMA CodeStep ==
    ASSUME Types, ICodes, Next
    PROVE  /\ code' \in Codes /\ spent' \subseteq Nat \X Phones /\ offered' \subseteq Phones \X Nat
           /\ ICodes'
  <1>1. /\ code \in Codes /\ used \in Counts /\ used' \in Counts /\ NoCode \in Codes
        /\ spent \subseteq Nat \X Phones /\ job \in [Handlers -> Jobs] /\ job' \in [Handlers -> Jobs]
        /\ offered \subseteq Phones \X Nat
    BY UsedStep, JobStep, NoFacts DEF Types
  <1>2. code.id \in Nat /\ used.codes \in Nat /\ used'.codes \in Nat /\ code.shown \in Nat
        /\ \A g \in Handlers : job[g].code \in Nat
    BY <1>1 DEF Codes, Counts, Jobs
  <1>3. /\ code.id <= used.codes
        /\ code = NoCode \/ (code.id # 0 /\ code.role # "none" /\ code.kind # "none")
        /\ code.shown # 0 => code.kind = "qr"
        /\ \A s \in spent : s[1] \in 1..used.codes /\ s[1] # code.id
        /\ \A h \in Handlers : job[h].code <= used.codes
    BY DEF ICodes
  <1>4. NoCode.id = 0 /\ NoCode.shown = 0
    BY DEF NoCode
  <1>6. offered' \subseteq Phones \X Nat
    <2>1. \/ \E d \in Phones : Check(d)
          \/ \E d, c : offered' = offered \ {<<d, c>>}
          \/ offered' = offered \/ offered' = {}
      BY ZenonT(40) DEF Next, Requests, Finishes, Sender, Mint, RedeemSpokenCode, CommitPairing, AddWatch, SetRole,
         Revoke, Save, Notify, Decide, MarkDue, Show, WrongGuess, Expire, Crash, Reconnect, RunCheck,
         RunWakes, Hello, HelloOK, EndIfIdle, SendRoster, ListedRunsOut, TakeRoster, SendBye,
         FinishLink, Renew, Service, Break
    <2>2. ASSUME NEW d \in Phones, Check(d) PROVE offered' \subseteq Phones \X Nat
      BY <1>1, <1>2, <2>2 DEF Check
    <2> QED
      BY <1>1, <2>1, <2>2
  \* A code that was minted is new.
  <1>7. ASSUME NEW h \in Handlers,
               \/ \E role \in Roles, kind \in Kinds : Mint(h, role, kind)
               \/ RedeemSpokenCode(h)
        PROVE  code' \in Codes /\ spent' \subseteq Nat \X Phones /\ ICodes'
    <2>1. used'.codes = used.codes + 1 /\ spent' = spent
      BY <1>7, OperationMints DEF Mint, RedeemSpokenCode
    <2> DEFINE New == /\ code' \in Codes /\ code'.id = used.codes + 1
                      /\ code'.role # "none" /\ code'.kind # "none"
                      /\ code'.shown # 0 => code'.kind = "qr"
    <2>2. New
      <3>1. ASSUME NEW role \in Roles, NEW kind \in Kinds, Mint(h, role, kind)
            PROVE  New
        <4>1. /\ code' = [id |-> used.codes + 1, role |-> role, kind |-> kind, tries |-> 0, shown |-> 0]
              /\ used.codes + 1 \in Nat /\ role \in {"owner", "viewer"} /\ kind \in {"qr", "spoken"}
              /\ 0 \in 0..(MaxTries - 1)
          BY <1>2, <3>1, RosterAssumption DEF Mint
        <4> QED
          BY <4>1 DEF Codes
      <3>2. ASSUME RedeemSpokenCode(h)
            PROVE  New
        <4>1. /\ code' = [code EXCEPT !.id = used.codes + 1, !.kind = "qr", !.tries = 0]
              /\ used.codes + 1 \in Nat /\ code.role # "none" /\ 0 \in 0..(MaxTries - 1)
          BY <1>2, <1>3, <3>2, RosterAssumption DEF RedeemSpokenCode, NoCode
        <4> QED
          BY <1>1, <4>1 DEF Codes
      <3> QED
        BY <1>7, <3>1, <3>2
    <2>3. \A s \in spent' : s[1] \in 1..used'.codes /\ s[1] # code'.id
      BY <1>1, <1>2, <1>3, <2>1, <2>2
    <2>4. \A g \in Handlers : job'[g].code <= used'.codes
      BY <1>2, <1>3, <2>1, JobStep
    <2> QED
      BY <1>1, <1>2, <2>1, <2>2, <2>3, <2>4 DEF ICodes
  \* No other step mints one.
  <1>8. ASSUME used'.codes = used.codes,
               ~ \E h \in Handlers : \/ \E role \in Roles, kind \in Kinds : Mint(h, role, kind)
                                     \/ RedeemSpokenCode(h)
        PROVE  code' \in Codes /\ spent' \subseteq Nat \X Phones /\ ICodes'
    <2>1. \A g \in Handlers : job'[g].code <= used'.codes
      BY <1>2, <1>3, <1>8, JobStep
    <2>2. ASSUME code' = NoCode, spent' = spent
          PROVE  code' \in Codes /\ spent' \subseteq Nat \X Phones /\ ICodes'
      BY <1>1, <1>2, <1>3, <1>4, <1>8, <2>1, <2>2 DEF ICodes
    <2>3. ASSUME code' \in Codes, spent' = spent, code'.id = code.id, code'.role = code.role,
                 code'.kind = code.kind, code # NoCode, code'.shown # 0 => code.kind = "qr"
          PROVE  code' \in Codes /\ spent' \subseteq Nat \X Phones /\ ICodes'
      BY <1>1, <1>2, <1>3, <1>8, <2>1, <2>3 DEF ICodes
    <2>4. ASSUME NEW h \in Handlers, NEW d \in Phones, NEW c \in 1..used.codes, CommitPairing(h, d, c)
          PROVE  code' \in Codes /\ spent' \subseteq Nat \X Phones /\ ICodes'
      <3>1. CASE UNCHANGED <<code, spent>>
        BY <1>1, <1>2, <1>3, <1>8, <2>1, <3>1 DEF ICodes
      <3>2. CASE code' = NoCode /\ spent' = spent \cup {<<c, d>>}
        <4>1. \A s \in spent' : s[1] \in 1..used'.codes /\ s[1] # code'.id
          BY <1>1, <1>2, <1>3, <1>4, <1>8, <3>2
        <4>2. spent' \subseteq Nat \X Phones
          BY <1>1, <1>2, <3>2
        <4> QED
          BY <1>1, <1>2, <1>4, <1>8, <2>1, <3>2, <4>1, <4>2 DEF ICodes
      <3> QED
        BY <2>4, <3>1, <3>2 DEF CommitPairing
    <2>5. ASSUME NEW h \in Handlers, Show(h)
          PROVE  code' \in Codes /\ spent' \subseteq Nat \X Phones /\ ICodes'
      <3>1. CASE UNCHANGED <<code, spent>>
        BY <1>1, <1>2, <1>3, <1>8, <2>1, <3>1 DEF ICodes
      <3>2. CASE code.kind = "qr" /\ code' = [code EXCEPT !.shown = link.home] /\ spent' = spent
        <4>1. link.home \in Nat
          BY DEF Types, Links
        <4>2. code' \in Codes /\ code'.id = code.id /\ code'.role = code.role /\ code'.kind = code.kind
          BY <1>1, <3>2, <4>1 DEF Codes
        <4>3. code # NoCode
          BY <3>2 DEF NoCode
        <4> QED
          BY <2>3, <3>2, <4>2, <4>3
      <3> QED
        BY <2>5, <3>1, <3>2 DEF Show
    <2>6. ASSUME WrongGuess
          PROVE  code' \in Codes /\ spent' \subseteq Nat \X Phones /\ ICodes'
      <3>1. CASE Burned
        BY <2>2, <2>6, <3>1 DEF WrongGuess
      <3>2. CASE ~ Burned
        <4>1. code # NoCode /\ code' = [code EXCEPT !.tries = @ + 1] /\ spent' = spent
          BY <2>6, <3>2 DEF WrongGuess
        <4>2. code.tries + 1 \in 0..(MaxTries - 1)
          BY <1>1, <3>2, RosterAssumption DEF Burned, Codes
        <4>3. /\ code' \in Codes /\ code'.id = code.id /\ code'.role = code.role
              /\ code'.kind = code.kind /\ code'.shown = code.shown
          BY <1>1, <4>1, <4>2 DEF Codes
        <4> QED
          BY <1>3, <2>3, <4>1, <4>3
      <3> QED
        BY <3>1, <3>2
    <2>7. ASSUME Expire \/ \E lost \in BOOLEAN : Crash(lost)
          PROVE  code' \in Codes /\ spent' \subseteq Nat \X Phones /\ ICodes'
      BY <2>2, <2>7 DEF Expire, Crash
    <2>8. ASSUME UNCHANGED <<code, spent>>
          PROVE  code' \in Codes /\ spent' \subseteq Nat \X Phones /\ ICodes'
      BY <1>1, <1>2, <1>3, <1>8, <2>1, <2>8 DEF ICodes
    <2> QED
      BY <1>8, <2>4, <2>5, <2>6, <2>7, <2>8, CodeFrame
  <1> QED
    BY <1>6, <1>7, <1>8, UsedStep

-----------------------------------------------------------------------------
(* The cloud link *)

\* The number that goes with a roster: it says what the box says now, and does
\* not fall.
LEMMA NumberedFacts ==
    ASSUME Types
    PROVE  /\ Numbered(link.home) \in Numbers
           /\ Numbered(link.home).sum = Listing(link.home)
           /\ kv.seq <= Numbered(link.home).seq
           /\ Listing(link.home) \in Listings
  <1>1. kv \in Numbers /\ kv.seq \in Nat
    BY DEF Types, Numbers
  <1>2. Listing(link.home) \in Listings
    <2>1. rows \in [Devices -> Rows] /\ code.id \in Nat /\ link.home \in Nat
      BY DEF Types, Codes, Links
    <2> QED
      BY <2>1, ListingIs, ListingType
  <1>3. CASE kv.sum = Listing(link.home)
    <2>1. Numbered(link.home) = kv
      BY <1>3 DEF Numbered
    <2> QED
      BY <1>1, <1>2, <1>3, <2>1
  <1>4. CASE kv.sum # Listing(link.home)
    <2>1. Numbered(link.home) = [seq |-> kv.seq + 1, sum |-> Listing(link.home)]
      BY <1>4 DEF Numbered
    <2> QED
      BY <1>1, <1>2, <2>1 DEF Numbers
  <1> QED
    BY <1>3, <1>4

\* The steps of the link, what each does to its variables, and what every other
\* step leaves alone.
LEMMA CloudFrame ==
    ASSUME Next
    PROVE  \/ \E h \in Handlers : Notify(h) \/ MarkDue(h)
           \/ Sender \/ Renew \/ Service \/ Break
           \/ \E lost \in BOOLEAN : Crash(lost)
           \/ UNCHANGED <<link, due, kv, net, uplink, svc>>
  <1>1. ASSUME NEW h \in Handlers, Requests(h) PROVE UNCHANGED <<link, due, kv, net, uplink, svc>>
    BY <1>1 DEF Requests, Mint, RedeemSpokenCode, CommitPairing, AddWatch, SetRole, Revoke
  <1>2. ASSUME NEW h \in Handlers, Decide(h) \/ Show(h) \/ \E ok \in BOOLEAN : Save(h, ok)
        PROVE  UNCHANGED <<link, due, kv, net, uplink, svc>>
    BY <1>2 DEF Save, Decide, Show
  <1>3. ASSUME WrongGuess \/ Expire \/ \E d \in Phones : Check(d) \/ Reconnect(d)
        PROVE  UNCHANGED <<link, due, kv, net, uplink, svc>>
    BY <1>3 DEF WrongGuess, Expire, Check, Reconnect
  <1> HIDE DEF enrolment, cloud, observed
  <1> QED
    BY <1>1, <1>2, <1>3, Zenon DEF Next, Finishes

\* A message that is added to the ones on the way.
LEMMA AppendFacts ==
    ASSUME Types, NEW m \in Messages, Len(uplink) < 2, uplink' = Append(uplink, m)
    PROVE  /\ uplink' \in Seq(Messages) /\ Len(uplink') <= 2 /\ Len(uplink') = Len(uplink) + 1
           /\ Len(uplink) \in Nat /\ uplink' # <<>>
           /\ uplink'[Len(uplink) + 1] = m
           /\ \A i \in 1..Len(uplink) : uplink'[i] = uplink[i]
  <1>1. uplink \in Seq(Messages) /\ Len(uplink) \in Nat
    BY DEF Types
  <1> QED
    BY <1>1

\* One that has arrived.
LEMMA TailFacts ==
    ASSUME Types, uplink # <<>>, uplink' = Tail(uplink)
    PROVE  /\ uplink' \in Seq(Messages) /\ Len(uplink') <= 2 /\ Len(uplink') = Len(uplink) - 1
           /\ Len(uplink) \in Nat /\ Len(uplink) >= 1
           /\ Head(uplink) = uplink[1] /\ uplink[1] \in Messages
           /\ \A i \in 1..Len(uplink') : uplink'[i] = uplink[i + 1]
  <1>1. uplink \in Seq(Messages) /\ Len(uplink) \in Nat /\ Len(uplink) <= 2
    BY DEF Types
  <1> QED
    BY <1>1

\* A request that tells the link.
LEMMA NotifyCloud ==
    ASSUME Types, NEW h \in Handlers, Notify(h)
    PROVE  /\ net' \in Nets /\ net' = [net EXCEPT !.idle = FALSE] /\ ~ net'.idle
           /\ net'.pc = net.pc /\ net'.hello = net.hello /\ net'.listed = net.listed
           /\ net'.force = net.force /\ net'.ranOut = net.ranOut
  BY DEF Notify, Moved, Types, Nets

\* Without a connection.
LEMMA NoConnectionCloud ==
    ASSUME NEW pc \in {"check", "wait", "dial"}
    PROVE  /\ NoConnection(pc) \in Nets /\ NoConnection(pc).pc = pc
           /\ ~ NoConnection(pc).idle
  BY NoFacts DEF NoConnection

\* The hello.
LEMMA HelloCloud ==
    ASSUME Types, NEW ok \in BOOLEAN, Hello(ok)
    PROVE  /\ net.pc = "dial" /\ net' \in Nets /\ net'.pc = "hello"
           /\ net'.hello = Numbered(link.home).seq /\ net'.idle = net.idle
           /\ kv' \in Numbers /\ (ok => kv' = Numbered(link.home))
           /\ svc' \in Services
  <1>1. net \in Nets /\ kv \in Numbers /\ svc \in Services /\ link.home \in Nat /\ NoListing \in Listings
    BY NoFacts DEF Types, Links
  <1>2. Numbered(link.home) \in Numbers /\ Numbered(link.home).seq \in Nat
    BY NumberedFacts DEF Numbers
  <1>3. /\ net.pc = "dial"
        /\ kv' = IF ok THEN Numbered(link.home) ELSE kv
        /\ net' = [net EXCEPT !.pc = "hello", !.home = link.home, !.hello = Numbered(link.home).seq]
        /\ svc' = IF svc.home = link.home THEN svc
                  ELSE [home |-> link.home, seq |-> 0, roster |-> NoListing]
    BY DEF Hello
  <1>4. net' \in Nets /\ net'.pc = "hello" /\ net'.hello = Numbered(link.home).seq
        /\ net'.idle = net.idle
    BY <1>1, <1>2, <1>3 DEF Nets
  <1>5. svc' \in Services
    BY <1>1, <1>3 DEF Services
  <1> QED
    BY <1>1, <1>2, <1>3, <1>4, <1>5

\* Its answer.
LEMMA HelloOKCloud ==
    ASSUME Types, NEW ok \in BOOLEAN, HelloOK(ok)
    PROVE  /\ net.pc = "hello" /\ net' \in Nets /\ net'.pc = "up" /\ net'.force
           /\ net'.idle = net.idle
           /\ kv' \in Numbers
           /\ ok /\ svc.seq > net.hello => kv'.seq = svc.seq + 1
           /\ ~ (svc.seq > net.hello) => kv' = kv
  <1>1. net \in Nets /\ kv \in Numbers /\ svc.seq \in Nat
    BY DEF Types, Services
  <1>2. /\ net.pc = "hello"
        /\ kv' = IF ok /\ svc.seq > net.hello THEN [kv EXCEPT !.seq = svc.seq + 1] ELSE kv
        /\ net' = [net EXCEPT !.pc = "up", !.force = TRUE, !.hello = 0]
    BY DEF HelloOK, Bumped
  <1>3. net' \in Nets /\ net'.pc = "up" /\ net'.force /\ net'.idle = net.idle
    BY <1>1, <1>2 DEF Nets
  <1>4. [kv EXCEPT !.seq = svc.seq + 1] \in Numbers /\ [kv EXCEPT !.seq = svc.seq + 1].seq = svc.seq + 1
    BY <1>1 DEF Numbers
  <1> QED
    BY <1>1, <1>2, <1>3, <1>4

\* The renewal.
LEMMA RenewCloud ==
    ASSUME Types, Renew
    PROVE  net' \in Nets /\ net'.pc = net.pc /\ net'.force /\ net'.idle = net.idle
  <1>1. net \in Nets /\ net' = [net EXCEPT !.force = TRUE]
    BY DEF Types, Renew
  <1> QED
    BY <1>1 DEF Nets

\* The code of the last roster has run out.
LEMMA RunsOutCloud ==
    ASSUME Types, ListedRunsOut
    PROVE  net' \in Nets /\ net'.pc = net.pc /\ net'.ranOut /\ net'.idle = net.idle
  <1>1. net \in Nets /\ net' = [net EXCEPT !.listed = 0, !.ranOut = TRUE]
    BY DEF Types, ListedRunsOut
  <1> QED
    BY <1>1 DEF Nets

\* The roster that is taken.
LEMMA TakeCloud ==
    ASSUME Types, TakeRoster
    PROVE  /\ net.pc = "up" /\ net' \in Nets /\ net'.pc = "end" /\ (net'.idle <=> ~ WantsLink)
  <1>1. net \in Nets /\ (~ WantsLink) \in BOOLEAN
    BY DEF Types
  <1>2. net.pc = "up" /\ net' = [net EXCEPT !.pc = "end", !.idle = ~ WantsLink, !.ranOut = FALSE]
    BY DEF TakeRoster, Asks
  <1> QED
    BY <1>1, <1>2 DEF Nets

\* The end of a link nothing needs.
LEMMA EndCloud ==
    ASSUME Types, NEW ok \in BOOLEAN, EndIfIdle(ok)
    PROVE  /\ net.pc = "end" /\ net' \in Nets /\ net'.pc = "send" /\ ~ net'.idle
           /\ link' \in Links /\ link'.home = link.home /\ (link.ending => link'.ending)
           /\ ~ net.idle => link' = link
  <1>1. net \in Nets /\ link \in Links
    BY DEF Types
  <1>2. /\ net.pc = "end"
        /\ link' = IF net.idle /\ ok THEN [link EXCEPT !.ending = TRUE] ELSE link
        /\ net' = [net EXCEPT !.pc = "send", !.idle = FALSE]
    BY DEF EndIfIdle
  <1>3. net' \in Nets /\ net'.pc = "send" /\ ~ net'.idle
    BY <1>1, <1>2 DEF Nets
  <1>4. link' \in Links /\ link'.home = link.home /\ (link.ending => link'.ending)
    BY <1>1, <1>2 DEF Links
  <1> QED
    BY <1>1, <1>2, <1>3, <1>4

\* The roster that goes, or does not because the link ends.
LEMMA SendCloud ==
    ASSUME Types, NEW ok \in BOOLEAN, SendRoster(ok)
    PROVE  /\ net.pc = "send" /\ net' \in Nets /\ net'.pc = "up" /\ net'.idle = net.idle
           /\ kv' \in Numbers /\ (ok => kv' = Numbered(link.home))
           /\ link.ending => uplink' = uplink
           /\ ~ link.ending =>
                /\ Len(uplink) < 2
                /\ uplink' = Append(uplink, [t |-> "roster", seq |-> Numbered(link.home).seq,
                                             roster |-> Listing(link.home)])
                /\ code.kind = "qr" => net'.listed = IF net.listed = 0 THEN code.id ELSE net.listed
  <1>1. net \in Nets /\ kv \in Numbers /\ code.id \in Nat
    BY DEF Types, Codes
  <1>2. Numbered(link.home) \in Numbers /\ Numbered(link.home).sum = Listing(link.home)
    BY NumberedFacts
  <1>3. net.pc = "send" /\ kv' = IF ok THEN Numbered(link.home) ELSE kv
    BY DEF SendRoster
  <1>4. CASE link.ending
    <2>1. uplink' = uplink /\ net' = [net EXCEPT !.pc = "up"]
      BY <1>4 DEF SendRoster
    <2>2. net' \in Nets /\ net'.pc = "up" /\ net'.idle = net.idle
      BY <1>1, <2>1 DEF Nets
    <2> QED
      BY <1>1, <1>2, <1>3, <1>4, <2>1, <2>2
  <1>5. CASE ~ link.ending
    <2> DEFINE l == IF net.listed = 0 /\ code.kind = "qr" THEN code.id ELSE net.listed
    <2>1. /\ Len(uplink) < 2
          /\ uplink' = Append(uplink, [t |-> "roster", seq |-> Numbered(link.home).seq,
                                       roster |-> Numbered(link.home).sum])
          /\ net' = [net EXCEPT !.pc = "up", !.force = FALSE,
                                !.listed = IF @ = 0 /\ code.kind = "qr" THEN code.id ELSE @]
      BY <1>5 DEF SendRoster
    <2>2. net' = [net EXCEPT !.pc = "up", !.force = FALSE, !.listed = l]
      BY <2>1
    <2>3. l \in Nat
      BY <1>1 DEF Nets
    <2>4. code.kind = "qr" => l = IF net.listed = 0 THEN code.id ELSE net.listed
      OBVIOUS
    <2> HIDE DEF l
    <2>5. net' \in Nets /\ net'.pc = "up" /\ net'.idle = net.idle /\ net'.listed = l
      BY <1>1, <2>2, <2>3 DEF Nets
    <2> QED
      BY <1>1, <1>2, <1>3, <1>5, <2>1, <2>4, <2>5
  <1> QED
    BY <1>4, <1>5

\* What the service does with a message.
LEMMA ServiceCloud ==
    ASSUME Types, Service
    PROVE  /\ uplink # <<>> /\ uplink' = Tail(uplink) /\ svc' \in Services
           /\ uplink[1].t = "bye" => svc'.seq = 0
           /\ uplink[1].t = "roster" /\ uplink[1].seq >= svc.seq =>
                svc'.seq = uplink[1].seq /\ svc'.roster = uplink[1].roster
           /\ uplink[1].t = "roster" /\ ~ (uplink[1].seq >= svc.seq) => svc' = svc
  <1>1. uplink # <<>> /\ uplink' = Tail(uplink)
    BY DEF Service
  <1>2. Head(uplink) = uplink[1] /\ uplink[1] \in Messages
    BY <1>1, TailFacts
  <1>3. svc \in Services /\ NoListing \in Listings
    BY NoFacts DEF Types
  <1> DEFINE m == uplink[1]
  <1>4. svc' = CASE m.t = "bye" -> [home |-> 0, seq |-> 0, roster |-> NoListing]
                 [] m.t = "roster" /\ m.seq >= svc.seq -> [svc EXCEPT !.seq = m.seq, !.roster = m.roster]
                 [] OTHER -> svc
    BY <1>2 DEF Service
  <1>5. m \in Messages /\ m.t \in {"roster", "bye"} /\ m.seq \in Nat /\ m.roster \in Listings
    BY <1>2 DEF Messages
  <1> HIDE DEF m
  <1>6. CASE m.t = "bye"
    <2>1. svc' = [home |-> 0, seq |-> 0, roster |-> NoListing]
      BY <1>4, <1>6
    <2>2. svc' \in Services /\ svc'.seq = 0
      BY <1>3, <2>1 DEF Services
    <2> QED
      BY <1>1, <1>6, <2>2 DEF m
  <1>7. CASE m.t = "roster" /\ m.seq >= svc.seq
    <2>1. svc' = [svc EXCEPT !.seq = m.seq, !.roster = m.roster]
      BY <1>4, <1>7
    <2>2. svc' \in Services /\ svc'.seq = m.seq /\ svc'.roster = m.roster
      BY <1>3, <1>5, <2>1 DEF Services
    <2> QED
      BY <1>1, <1>7, <2>2 DEF m
  <1>8. CASE m.t = "roster" /\ ~ (m.seq >= svc.seq)
    <2>1. svc' = svc
      BY <1>4, <1>8
    <2> QED
      BY <1>1, <1>3, <1>8, <2>1 DEF m
  <1> QED
    BY <1>5, <1>6, <1>7, <1>8

\* The link's own types, and its messages.
LEMMA CloudStep ==
    ASSUME Types, IQueue, Next
    PROVE  /\ link' \in Links /\ net' \in Nets /\ kv' \in Numbers /\ svc' \in Services
           /\ uplink' \in Seq(Messages) /\ Len(uplink') <= 2
           /\ IQueue'
  <1> DEFINE Good == /\ link' \in Links /\ net' \in Nets /\ kv' \in Numbers /\ svc' \in Services
                     /\ uplink' \in Seq(Messages) /\ Len(uplink') <= 2
                     /\ IQueue'
             Off == {"check", "wait", "dial", "hello"}
  <1>1. /\ link \in Links /\ net \in Nets /\ kv \in Numbers /\ svc \in Services
        /\ uplink \in Seq(Messages) /\ Len(uplink) <= 2
    BY DEF Types
  <1>2. /\ net.pc \in Off => uplink = <<>>
        /\ \A i \in 1..Len(uplink) : uplink[i].t = "bye" => link.ending
    BY DEF IQueue
  <1>3. net.pc \in {"check", "wait", "dial", "hello", "up", "end", "send"}
    BY <1>1 DEF Nets
  \* Nothing is on the way.
  <1>4. ASSUME link' \in Links, net' \in Nets, kv' \in Numbers, svc' \in Services, uplink' = <<>>
        PROVE  Good
    <2>1. uplink' \in Seq(Messages) /\ Len(uplink') = 0
      BY <1>4
    <2>2. IQueue'
      BY <1>4, <2>1 DEF IQueue
    <2> QED
      BY <1>4, <2>1, <2>2
  \* The messages stay.
  <1>5. ASSUME link' \in Links, net' \in Nets, kv' \in Numbers, svc' \in Services, uplink' = uplink,
               link.ending => link'.ending, net'.pc \in Off => net.pc \in Off
        PROVE  Good
    <2>1. IQueue'
      BY <1>2, <1>5 DEF IQueue
    <2> QED
      BY <1>1, <1>5, <2>1
  \* A message is added while the connection is up.
  <1>6. ASSUME NEW m \in Messages, Len(uplink) < 2, uplink' = Append(uplink, m), net' \in Nets,
               net'.pc = "up", kv' \in Numbers, link' = link, svc' = svc,
               m.t = "bye" => link.ending
        PROVE  Good
    <2>1. /\ uplink' \in Seq(Messages) /\ Len(uplink') <= 2 /\ Len(uplink') = Len(uplink) + 1
          /\ Len(uplink) \in Nat /\ uplink'[Len(uplink) + 1] = m
          /\ \A i \in 1..Len(uplink) : uplink'[i] = uplink[i]
      BY <1>6, AppendFacts
    <2>2. ASSUME NEW i \in 1..Len(uplink'), uplink'[i].t = "bye" PROVE link.ending
      <3>1. CASE i = Len(uplink) + 1
        BY <1>6, <2>1, <2>2, <3>1
      <3>2. CASE i # Len(uplink) + 1
        <4>1. i \in 1..Len(uplink)
          BY <2>1, <3>2
        <4> QED
          BY <1>2, <2>1, <2>2, <4>1
      <3> QED
        BY <3>1, <3>2
    <2>3. IQueue'
      BY <1>6, <2>2 DEF IQueue
    <2> QED
      BY <1>1, <1>6, <2>1, <2>3
  <1>7. ASSUME NEW h \in Handlers, Notify(h) PROVE Good
    <2>1. UNCHANGED <<link, kv, uplink, svc>>
      BY <1>7 DEF Notify
    <2> QED
      BY <1>1, <1>5, <1>7, <2>1, NotifyCloud
  <1>8. ASSUME NEW h \in Handlers, MarkDue(h) PROVE Good
    <2>1. UNCHANGED <<kv, net, uplink, svc>> /\ (MakeLink \/ UNCHANGED <<link, used>>)
      BY <1>8 DEF MarkDue
    <2>2. link' \in Links /\ link'.ending = link.ending
      BY <2>1, LinkMade
    <2> QED
      BY <1>1, <1>5, <2>1, <2>2
  <1>9. ASSUME RunCheck PROVE Good
    <2>1. /\ net.pc = "check" /\ UNCHANGED <<kv, uplink, svc>>
          /\ MakeLink \/ UNCHANGED <<link, used>>
          /\ net' = NoConnection(IF link' = NoLink THEN "wait" ELSE "dial")
      BY <1>9 DEF RunCheck
    <2>2. link' \in Links
      BY <2>1, LinkMade
    <2>3. net' \in Nets
      BY <2>1, NoConnectionCloud
    <2> QED
      BY <1>1, <1>2, <1>4, <2>1, <2>2, <2>3
  <1>10. ASSUME RunWakes PROVE Good
    <2>1. net.pc = "wait" /\ net' = [net EXCEPT !.pc = "check"] /\ UNCHANGED <<link, kv, uplink, svc>>
      BY <1>10 DEF RunWakes
    <2>2. net' \in Nets
      BY <1>1, <2>1 DEF Nets
    <2> QED
      BY <1>1, <1>2, <1>4, <2>1, <2>2
  <1>11. ASSUME NEW ok \in BOOLEAN, Hello(ok) PROVE Good
    <2>1. UNCHANGED <<link, uplink>>
      BY <1>11 DEF Hello
    <2> QED
      BY <1>1, <1>2, <1>4, <1>11, <2>1, HelloCloud
  <1>12. ASSUME NEW ok \in BOOLEAN, HelloOK(ok) PROVE Good
    <2>1. UNCHANGED <<link, uplink, svc>>
      BY <1>12 DEF HelloOK
    <2> QED
      BY <1>1, <1>5, <1>12, <2>1, HelloOKCloud
  <1>13. ASSUME Renew \/ ListedRunsOut PROVE Good
    <2>1. UNCHANGED <<link, kv, uplink, svc>>
      BY <1>13 DEF Renew, ListedRunsOut
    <2>2. net' \in Nets /\ net'.pc = net.pc
      BY <1>13, RenewCloud, RunsOutCloud
    <2> QED
      BY <1>1, <1>5, <2>1, <2>2
  <1>14. ASSUME TakeRoster PROVE Good
    <2>1. UNCHANGED <<link, kv, uplink, svc>>
      BY <1>14 DEF TakeRoster
    <2> QED
      BY <1>1, <1>5, <1>14, <2>1, TakeCloud
  <1>15. ASSUME NEW ok \in BOOLEAN, EndIfIdle(ok) PROVE Good
    <2>1. UNCHANGED <<kv, uplink, svc>>
      BY <1>15 DEF EndIfIdle
    <2> QED
      BY <1>1, <1>5, <1>15, <2>1, EndCloud
  <1>16. ASSUME NEW ok \in BOOLEAN, SendRoster(ok) PROVE Good
    <2>1. UNCHANGED <<link, svc>>
      BY <1>16 DEF SendRoster
    <2>2. CASE link.ending
      BY <1>1, <1>5, <1>16, <2>1, <2>2, SendCloud
    <2>3. CASE ~ link.ending
      <3> DEFINE m == [t |-> "roster", seq |-> Numbered(link.home).seq, roster |-> Listing(link.home)]
      <3>1. m \in Messages /\ m.t # "bye"
        BY NumberedFacts DEF Messages, Numbers
      <3>2. Len(uplink) < 2 /\ uplink' = Append(uplink, m) /\ net' \in Nets /\ net'.pc = "up"
            /\ kv' \in Numbers
        BY <1>16, <2>3, SendCloud
      <3> HIDE DEF m
      <3> QED
        BY <1>6, <2>1, <3>1, <3>2
    <2> QED
      BY <2>2, <2>3
  <1>17. ASSUME SendBye PROVE Good
    <2> DEFINE m == [t |-> "bye", seq |-> 0, roster |-> NoListing]
    <2>1. /\ UNCHANGED <<link, kv, svc>> /\ net.pc = "up" /\ net' = [net EXCEPT !.bye = TRUE]
          /\ link.ending /\ Len(uplink) < 2 /\ uplink' = Append(uplink, m)
      BY <1>17 DEF SendBye
    <2>2. m \in Messages
      BY NoFacts DEF Messages
    <2> HIDE DEF m
    <2>3. net' \in Nets /\ net'.pc = "up"
      BY <1>1, <2>1 DEF Nets
    <2> QED
      BY <1>1, <1>6, <2>1, <2>2, <2>3
  <1>18. ASSUME FinishLink PROVE Good
    <2>1. UNCHANGED <<kv, svc>> /\ link' = NoLink /\ net' = NoConnection("check") /\ uplink' = <<>>
      BY <1>18 DEF FinishLink
    <2> QED
      BY <1>1, <1>4, <2>1, NoFacts
  <1>19. ASSUME Break PROVE Good
    <2>1. UNCHANGED <<link, kv, svc>> /\ net' = NoConnection("check") /\ uplink' = <<>>
      BY <1>19 DEF Break
    <2> QED
      BY <1>1, <1>4, <2>1, NoFacts
  <1>20. ASSUME NEW lost \in BOOLEAN, Crash(lost) PROVE Good
    <2>1. UNCHANGED <<link, svc>> /\ net' = NoConnection("check") /\ uplink' = <<>>
          /\ kv' = IF lost THEN [seq |-> 0, sum |-> NoListing] ELSE kv
      BY <1>20 DEF Crash
    <2>2. kv' \in Numbers
      BY <1>1, <2>1, NoFacts DEF Numbers
    <2> QED
      BY <1>1, <1>4, <2>1, <2>2, NoFacts
  <1>21. ASSUME Service PROVE Good
    <2>1. UNCHANGED <<link, kv, net>>
      BY <1>21 DEF Service
    <2>2. uplink # <<>> /\ uplink' = Tail(uplink) /\ svc' \in Services
      BY <1>21, ServiceCloud
    <2>3. /\ uplink' \in Seq(Messages) /\ Len(uplink') <= 2 /\ Len(uplink') = Len(uplink) - 1
          /\ Len(uplink) \in Nat
          /\ \A i \in 1..Len(uplink') : uplink'[i] = uplink[i + 1]
      BY <2>2, TailFacts
    <2>4. ASSUME NEW i \in 1..Len(uplink'), uplink'[i].t = "bye" PROVE link.ending
      <3>1. i + 1 \in 1..Len(uplink) /\ uplink'[i] = uplink[i + 1]
        BY <2>3
      <3> QED
        BY <1>2, <2>4, <3>1
    <2>5. IQueue'
      BY <1>2, <2>1, <2>2, <2>4 DEF IQueue
    <2> QED
      BY <1>1, <2>1, <2>2, <2>3, <2>5
  <1>22. ASSUME UNCHANGED <<link, due, kv, net, uplink, svc>> PROVE Good
    BY <1>1, <1>5, <1>22
  <1>23. Good
    <2> HIDE DEF Good, enrolment, cloud, observed
    <2> QED
      BY <1>7, <1>8, <1>9, <1>10, <1>11, <1>12, <1>13, <1>14, <1>15, <1>16, <1>17, <1>18, <1>19,
         <1>20, <1>21, <1>22, CloudFrame, Zenon DEF Sender
  <1> QED
    BY <1>23

\* The link a code on the screen names stays: the sender ends a link only when
\* nothing needed it, which the code does.
LEMMA LinkKept ==
    ASSUME Types, ICodes, IShown, Next, code.shown # 0
    PROVE  link' = link
  <1>1. link = [home |-> code.shown, ending |-> FALSE] /\ ~ net.idle
    BY DEF IShown, ICodes
  <1>2. link # NoLink /\ ~ link.ending
    BY <1>1 DEF NoLink
  <1>3. MakeLink => link' = link
    BY <1>2, LinkMade
  <1>4. \A ok \in BOOLEAN : EndIfIdle(ok) => link' = link
    BY <1>1, EndCloud
  <1> QED
    BY <1>2, <1>3, <1>4, CloudFrame DEF Sender, Notify, MarkDue, RunCheck, RunWakes, Hello, HelloOK,
       SendRoster, ListedRunsOut, TakeRoster, SendBye, FinishLink, Renew, Service, Break, Crash

\* A code on the screen needs the link.
LEMMA CodeNeedsLink == code.kind = "qr" => WantsLink
  <1>1. code.kind = "qr" => Listing(0).pending = {<<0, code.id>>}
    BY DEF Listing
  <1>2. NoListing.pending = {}
    BY DEF NoListing
  <1> QED
    BY <1>1, <1>2 DEF WantsLink

\* The sender's decision is made with no code on the screen.
LEMMA IdleStep ==
    ASSUME Types, Next, net'.idle
    PROVE  net.idle \/ (code.kind # "qr" /\ code' = code)
  <1>1. net \in Nets
    BY DEF Types
  <1>2. ASSUME TakeRoster PROVE code.kind # "qr" /\ code' = code
    BY <1>2, TakeCloud, CodeNeedsLink DEF TakeRoster
  <1>3. \A ok \in BOOLEAN : Hello(ok) => net.idle
    BY HelloCloud
  <1>4. \A ok \in BOOLEAN : HelloOK(ok) => net.idle
    BY HelloOKCloud
  <1>5. \A ok \in BOOLEAN : SendRoster(ok) => net.idle
    BY SendCloud
  <1>6. \A ok \in BOOLEAN : ~ EndIfIdle(ok)
    BY EndCloud
  <1>7. \A h \in Handlers : ~ Notify(h)
    BY NotifyCloud
  <1>8. ~ RunCheck /\ ~ FinishLink /\ ~ Break /\ \A lost \in BOOLEAN : ~ Crash(lost)
    BY NoConnectionCloud DEF RunCheck, FinishLink, Break, Crash
  <1>9. RunWakes \/ SendBye => net.idle
    BY <1>1 DEF RunWakes, SendBye, Nets
  <1>10. Renew \/ ListedRunsOut => net.idle
    BY RenewCloud, RunsOutCloud
  <1>11. Service \/ (\E h \in Handlers : MarkDue(h)) => net.idle
    BY DEF Service, MarkDue
  <1> QED
    BY <1>2, <1>3, <1>4, <1>5, <1>6, <1>7, <1>8, <1>9, <1>10, <1>11, CloudFrame DEF Sender

\* A step shows a home, mints a code, or leaves the code on the screen or nothing.
LEMMA ScreenStep ==
    ASSUME Types, ICodes, Next
    PROVE  \/ code'.kind = "none" /\ code'.shown = 0
           \/ code'.id = code.id /\ code'.kind = code.kind /\ code'.shown = code.shown
           \/ \E h \in Handlers :
                \/ /\ Show(h) /\ job[h].code = code.id /\ ~ link.ending
                   /\ code'.id = code.id /\ code'.kind = code.kind /\ code'.shown = link.home
                \/ /\ (\E role \in Roles, kind \in Kinds : Mint(h, role, kind)) \/ RedeemSpokenCode(h)
                   /\ code'.id = used.codes + 1 /\ code'.shown = 0
  <1>1. code \in Codes /\ NoCode.kind = "none" /\ NoCode.shown = 0
    BY DEF Types, NoCode
  <1>2. ASSUME NEW h \in Handlers, NEW role \in Roles, NEW kind \in Kinds, Mint(h, role, kind)
        PROVE  code'.id = used.codes + 1 /\ code'.shown = 0
    BY <1>2 DEF Mint
  <1>3. ASSUME NEW h \in Handlers, RedeemSpokenCode(h)
        PROVE  code'.id = used.codes + 1 /\ code'.shown = 0
    <2>1. code.kind = "spoken" /\ code' = [code EXCEPT !.id = used.codes + 1, !.kind = "qr", !.tries = 0]
      BY <1>3 DEF RedeemSpokenCode
    <2>2. code.shown = 0
      BY <2>1 DEF ICodes
    <2> QED
      BY <1>1, <2>1, <2>2 DEF Codes
  <1>4. ASSUME NEW h \in Handlers, Show(h)
        PROVE  \/ code' = code
               \/ /\ job[h].code = code.id /\ ~ link.ending
                  /\ code'.id = code.id /\ code'.kind = code.kind /\ code'.shown = link.home
    BY <1>1, <1>4 DEF Show, Codes
  <1>5. ASSUME NEW h \in Handlers, NEW d, NEW c, CommitPairing(h, d, c)
        PROVE  code' = code \/ code' = NoCode
    BY <1>5 DEF CommitPairing
  <1>6. ASSUME WrongGuess
        PROVE  code' = NoCode \/ (code'.id = code.id /\ code'.kind = code.kind /\ code'.shown = code.shown)
    BY <1>1, <1>6 DEF WrongGuess, Codes
  <1>7. ASSUME Expire \/ \E lost \in BOOLEAN : Crash(lost)
        PROVE  code' = NoCode
    BY <1>7 DEF Expire, Crash
  <1> QED
    BY <1>1, <1>2, <1>3, <1>4, <1>5, <1>6, <1>7, CodeFrame

\* The home on the screen is not given up: the decision to end the link does not
\* outlive a request that shows a code.
LEMMA ShownStep ==
    ASSUME Types, ICodes, IShown, Next
    PROVE  IShown'
  <1>1. /\ link \in Links /\ used.codes \in Nat /\ code.id \in Nat
        /\ \A g \in Handlers : job[g].code \in Nat
    BY DEF Types, Counts, Codes, Jobs
  <1>2. /\ code.shown # 0 => link = [home |-> code.shown, ending |-> FALSE]
        /\ net.idle /\ code.kind = "qr" =>
             /\ code.shown = 0
             /\ \A h \in Handlers : job[h].code = code.id => job[h].pc = "notify"
    BY DEF IShown
  <1>3. /\ code.kind = "qr" => code.id # 0
        /\ \A h \in Handlers : job[h].code <= used.codes
    BY DEF ICodes, NoCode
  <1>4. ASSUME code'.shown # 0 PROVE link' = [home |-> code'.shown, ending |-> FALSE]
    <2>1. CASE code'.shown = code.shown
      BY <1>2, <1>4, <2>1, LinkKept
    <2>2. CASE \E h \in Handlers : Show(h) /\ ~ link.ending /\ code'.shown = link.home
      <3>1. link' = link
        BY <2>2 DEF Show
      <3> QED
        BY <1>1, <2>2, <3>1 DEF Links
    <2> QED
      BY <1>4, <2>1, <2>2, ScreenStep
  <1>5. ASSUME net'.idle, code'.kind = "qr"
        PROVE  code'.shown = 0 /\ \A g \in Handlers : job'[g].code = code'.id => job'[g].pc = "notify"
    <2>1. net.idle
      BY <1>5, IdleStep
    <2>2. CASE \E h \in Handlers :
                 /\ (\E role \in Roles, kind \in Kinds : Mint(h, role, kind)) \/ RedeemSpokenCode(h)
                 /\ code'.id = used.codes + 1 /\ code'.shown = 0
      <3>1. \A g \in Handlers : job'[g].code = 0 \/ job'[g].code = job[g].code \/ job'[g].pc = "notify"
        BY JobStep
      <3> QED
        BY <1>1, <1>3, <2>2, <3>1
    <2>3. CASE code'.id = code.id /\ code'.kind = code.kind
      <3>1. code.kind = "qr" /\ code.shown = 0 /\ code.id # 0
            /\ \A h \in Handlers : job[h].code = code.id => job[h].pc = "notify"
        BY <1>2, <1>3, <1>5, <2>1, <2>3
      <3>2. ASSUME NEW h \in Handlers, Show(h) PROVE job[h].code # code.id
        BY <3>1, <3>2 DEF Show
      <3>3. code'.shown = 0
        <4>1. code.id <= used.codes
          BY DEF ICodes
        <4> QED
          BY <1>1, <2>3, <3>1, <3>2, <4>1, ScreenStep
      <3>4. ASSUME NEW g \in Handlers, job'[g].code = code.id PROVE job'[g] = job[g]
        <4>1. code.id <= used.codes
          BY DEF ICodes
        <4>2. ASSUME Finishes(g), job[g].code = code.id PROVE Notify(g)
          BY <4>2, <3>1 DEF Finishes, Save, Decide, MarkDue, Show
        <4>3. ~ Notify(g)
          BY <1>5, NotifyCloud
        <4> QED
          BY <1>1, <3>1, <3>4, <4>1, <4>2, <4>3, JobStep
      <3> QED
        BY <2>3, <3>1, <3>3, <3>4
    <2> QED
      BY <1>5, <2>2, <2>3, ScreenStep
  <1> QED
    BY <1>4, <1>5 DEF IShown

\* Where the numbers and the messages stay, and the connection with them.
LEMMA QuietStep ==
    ASSUME Types, Next
    PROVE  \/ /\ UNCHANGED <<kv, svc, uplink>>
              /\ \/ net'.pc = net.pc /\ net'.hello = net.hello
                 \/ net.pc \in {"up", "end"} /\ net'.pc \in {"end", "send"}
           \/ /\ net'.pc \in {"check", "wait", "dial"}
              /\ \/ uplink' = <<>>
                 \/ uplink' = uplink /\ net.pc \in {"check", "wait"}
           \/ \E ok \in BOOLEAN : Hello(ok) \/ HelloOK(ok) \/ SendRoster(ok)
           \/ SendBye \/ Service
  <1>1. net \in Nets
    BY DEF Types
  <1>2. ASSUME NEW h \in Handlers, Notify(h)
        PROVE  UNCHANGED <<kv, svc, uplink>> /\ net'.pc = net.pc /\ net'.hello = net.hello
    BY <1>2, NotifyCloud DEF Notify
  <1>3. ASSUME NEW h \in Handlers, MarkDue(h)
        PROVE  UNCHANGED <<kv, svc, uplink, net>>
    BY <1>3 DEF MarkDue
  <1>4. ASSUME Renew PROVE UNCHANGED <<kv, svc, uplink>> /\ net'.pc = net.pc /\ net'.hello = net.hello
    BY <1>1, <1>4 DEF Renew, Nets
  <1>5. ASSUME ListedRunsOut
        PROVE  UNCHANGED <<kv, svc, uplink>> /\ net'.pc = net.pc /\ net'.hello = net.hello
    BY <1>1, <1>5 DEF ListedRunsOut, Nets
  <1>6. ASSUME TakeRoster PROVE UNCHANGED <<kv, svc, uplink>> /\ net.pc = "up" /\ net'.pc = "end"
    BY <1>6, TakeCloud DEF TakeRoster
  <1>7. ASSUME NEW ok \in BOOLEAN, EndIfIdle(ok)
        PROVE  UNCHANGED <<kv, svc, uplink>> /\ net.pc = "end" /\ net'.pc = "send"
    BY <1>7, EndCloud DEF EndIfIdle
  <1>8. ASSUME RunCheck
        PROVE  net'.pc \in {"wait", "dial"} /\ uplink' = uplink /\ net.pc = "check"
    BY <1>8, NoConnectionCloud DEF RunCheck
  <1>9. ASSUME RunWakes PROVE net'.pc = "check" /\ uplink' = uplink /\ net.pc = "wait"
    BY <1>1, <1>9 DEF RunWakes, Nets
  <1>10. ASSUME FinishLink \/ Break \/ \E lost \in BOOLEAN : Crash(lost)
         PROVE  net'.pc = "check" /\ uplink' = <<>>
    BY <1>10, NoConnectionCloud DEF FinishLink, Break, Crash
  <1> HIDE DEF enrolment, cloud, observed
  <1> QED
    BY <1>2, <1>3, <1>4, <1>5, <1>6, <1>7, <1>8, <1>9, <1>10, CloudFrame DEF Sender

\* The numbers stay in order as long as each could be stored.
LEMMA NumbersStep ==
    ASSUME Types, IQueue, INumbers, Next, used'.fault = 0
    PROVE  INumbers'
  <1>1. /\ Len(uplink) \in Nat /\ kv.seq \in Nat /\ svc.seq \in Nat /\ net.hello \in Nat
        /\ \A i \in 1..Len(uplink) : uplink[i] \in Messages /\ uplink[i].seq \in Nat
        /\ net.pc \in {"check", "wait", "dial", "hello", "up", "end", "send"}
    <2>1. kv.seq \in Nat /\ svc.seq \in Nat /\ net.hello \in Nat
      BY DEF Types, Numbers, Services, Nets
    <2>2. net.pc \in {"check", "wait", "dial", "hello", "up", "end", "send"}
      BY DEF Types, Nets
    <2>3. uplink \in Seq(Messages)
      BY DEF Types
    <2>4. Len(uplink) \in Nat /\ \A i \in 1..Len(uplink) : uplink[i] \in Messages
      BY <2>3
    <2>5. \A m \in Messages : m.seq \in Nat
      BY DEF Messages
    <2> QED
      BY <2>1, <2>2, <2>4, <2>5
  <1>2. /\ net.pc = "hello" => net.hello = kv.seq
        /\ net.pc \in {"up", "end", "send"} => svc.seq <= kv.seq
        /\ \A i \in 1..Len(uplink) : uplink[i].t = "roster" =>
             /\ svc.seq <= uplink[i].seq /\ uplink[i].seq <= kv.seq
             /\ \A j \in 1..i : uplink[j].t = "roster" => uplink[j].seq <= uplink[i].seq
    BY DEF INumbers
  <1>3. net.pc \in {"check", "wait", "dial", "hello"} => uplink = <<>>
    BY DEF IQueue
  <1>4. CASE /\ UNCHANGED <<kv, svc, uplink>>
             /\ \/ net'.pc = net.pc /\ net'.hello = net.hello
                \/ net.pc \in {"up", "end"} /\ net'.pc \in {"end", "send"}
    BY <1>2, <1>4 DEF INumbers
  <1>5. CASE /\ net'.pc \in {"check", "wait", "dial"}
             /\ \/ uplink' = <<>>
                \/ uplink' = uplink /\ net.pc \in {"check", "wait"}
    BY <1>3, <1>5 DEF INumbers
  <1>6. ASSUME NEW ok \in BOOLEAN, Hello(ok) PROVE INumbers'
    <2>1. ok
      BY <1>6, WriteUsed DEF Hello
    <2>2. net.pc = "dial" /\ uplink' = uplink
      BY <1>6 DEF Hello
    <2>3. net'.pc = "hello" /\ net'.hello = kv'.seq
      BY <1>6, <2>1, HelloCloud
    <2> QED
      BY <1>3, <2>2, <2>3 DEF INumbers
  <1>7. ASSUME NEW ok \in BOOLEAN, HelloOK(ok) PROVE INumbers'
    <2>1. ok
      BY <1>7, WriteUsed DEF HelloOK
    <2>2. net.pc = "hello" /\ uplink' = uplink /\ svc' = svc
      BY <1>7 DEF HelloOK
    <2>3. net'.pc = "up"
      BY <1>7, HelloOKCloud
    <2>4. svc'.seq <= kv'.seq
      <3>1. CASE svc.seq > net.hello
        <4>1. kv'.seq = svc.seq + 1
          BY <1>7, <2>1, <3>1, HelloOKCloud
        <4> QED
          BY <1>1, <2>2, <4>1
      <3>2. CASE ~ (svc.seq > net.hello)
        <4>1. kv' = kv
          BY <1>7, <3>2, HelloOKCloud
        <4> QED
          BY <1>1, <1>2, <2>2, <3>2, <4>1
      <3> QED
        BY <3>1, <3>2
    <2> QED
      BY <1>3, <2>2, <2>3, <2>4 DEF INumbers
  <1>8. ASSUME NEW ok \in BOOLEAN, SendRoster(ok) PROVE INumbers'
    <2>1. ok
      BY <1>8, WriteUsed DEF SendRoster
    <2>2. net.pc = "send" /\ svc' = svc
      BY <1>8 DEF SendRoster
    <2>3. /\ net'.pc = "up" /\ kv' = Numbered(link.home) /\ kv'.seq \in Nat /\ kv.seq <= kv'.seq
      BY <1>8, <2>1, SendCloud, NumberedFacts DEF Numbers
    <2>4. CASE link.ending
      <3>1. uplink' = uplink
        BY <1>8, <2>4, SendCloud
      <3>2. svc'.seq <= kv'.seq
        BY <1>1, <1>2, <2>2, <2>3
      <3>3. \A i \in 1..Len(uplink) : uplink[i].t = "roster" => uplink[i].seq <= kv'.seq
        BY <1>1, <1>2, <2>3
      <3> QED
        BY <1>2, <2>2, <2>3, <3>1, <3>2, <3>3 DEF INumbers
    <2>5. CASE ~ link.ending
      <3> DEFINE m == [t |-> "roster", seq |-> Numbered(link.home).seq, roster |-> Listing(link.home)]
                 n == Len(uplink) + 1
      <3>1. m \in Messages /\ m.seq = kv'.seq
        BY <2>3, NumberedFacts DEF Messages, Numbers
      <3>2. Len(uplink) < 2 /\ uplink' = Append(uplink, m)
        BY <1>8, <2>5, SendCloud
      <3> HIDE DEF m
      <3>3. /\ Len(uplink') = n /\ uplink'[n] = m
            /\ \A i \in 1..Len(uplink) : uplink'[i] = uplink[i]
        BY <3>1, <3>2, AppendFacts
      <3>4. ASSUME NEW i \in 1..n, uplink'[i].t = "roster"
            PROVE  svc.seq <= uplink'[i].seq /\ uplink'[i].seq <= kv'.seq
        <4>1. CASE i = n
          BY <1>1, <1>2, <2>2, <2>3, <3>1, <3>3, <4>1
        <4>2. CASE i # n
          <5>1. i \in 1..Len(uplink) /\ uplink'[i] = uplink[i]
            BY <1>1, <3>3, <4>2
          <5> QED
            BY <1>1, <1>2, <2>3, <3>4, <5>1
        <4> QED
          BY <4>1, <4>2
      <3>5. ASSUME NEW i \in 1..n, uplink'[i].t = "roster", NEW j \in 1..i, uplink'[j].t = "roster"
            PROVE  uplink'[j].seq <= uplink'[i].seq
        <4>1. CASE i = n
          BY <1>1, <3>1, <3>3, <3>4, <3>5, <4>1
        <4>2. CASE i # n
          <5>1. /\ i \in 1..Len(uplink) /\ j \in 1..Len(uplink)
                /\ uplink'[i] = uplink[i] /\ uplink'[j] = uplink[j]
            BY <1>1, <3>3, <4>2
          <5> QED
            BY <1>2, <3>5, <5>1
        <4> QED
          BY <4>1, <4>2
      <3>6. svc'.seq <= kv'.seq
        BY <1>1, <1>2, <2>2, <2>3
      <3> QED
        BY <2>2, <2>3, <3>3, <3>4, <3>5, <3>6 DEF INumbers
    <2> QED
      BY <2>4, <2>5
  <1>9. ASSUME SendBye PROVE INumbers'
    <2> DEFINE m == [t |-> "bye", seq |-> 0, roster |-> NoListing]
               n == Len(uplink) + 1
    <2>1. /\ UNCHANGED <<kv, svc>> /\ net.pc = "up" /\ net' = [net EXCEPT !.bye = TRUE]
          /\ Len(uplink) < 2 /\ uplink' = Append(uplink, m)
      BY <1>9 DEF SendBye
    <2>2. m \in Messages /\ m.t # "roster"
      BY NoFacts DEF Messages
    <2>3. net'.pc = "up"
      BY <2>1 DEF Types, Nets
    <2> HIDE DEF m
    <2>4. /\ Len(uplink') = n /\ uplink'[n] = m
          /\ \A i \in 1..Len(uplink) : uplink'[i] = uplink[i]
      BY <2>1, <2>2, AppendFacts
    <2>5. \A i \in 1..n : uplink'[i].t = "roster" => i \in 1..Len(uplink) /\ uplink'[i] = uplink[i]
      BY <1>1, <2>2, <2>4
    <2>6. ASSUME NEW i \in 1..n, uplink'[i].t = "roster"
          PROVE  /\ svc.seq <= uplink'[i].seq /\ uplink'[i].seq <= kv.seq
                 /\ \A j \in 1..i : uplink'[j].t = "roster" => uplink'[j].seq <= uplink'[i].seq
      <3>1. i \in 1..Len(uplink) /\ \A j \in 1..i : j \in 1..n
        BY <1>1, <2>5, <2>6
      <3> QED
        BY <1>2, <2>5, <2>6, <3>1
    <2> QED
      BY <1>2, <2>1, <2>3, <2>4, <2>6 DEF INumbers
  <1>10. ASSUME Service PROVE INumbers'
    <2>1. UNCHANGED <<kv, net>>
      BY <1>10 DEF Service
    <2>2. uplink # <<>> /\ uplink' = Tail(uplink)
      BY <1>10, ServiceCloud
    <2>3. /\ Len(uplink') = Len(uplink) - 1 /\ Len(uplink) >= 1 /\ uplink[1] \in Messages
          /\ \A i \in 1..Len(uplink') : uplink'[i] = uplink[i + 1]
      BY <2>2, TailFacts
    <2>4. net.pc \in {"up", "end", "send"}
      BY <1>1, <1>3, <2>2
    <2>5. uplink[1].t = "bye" \/ uplink[1].t = "roster"
      BY <2>3 DEF Messages
    <2>6. \/ uplink[1].t = "bye" /\ svc'.seq = 0
          \/ uplink[1].t = "roster" /\ svc'.seq = uplink[1].seq
      <3>1. 1 \in 1..Len(uplink)
        BY <1>1, <2>3
      <3>2. uplink[1].t = "roster" => uplink[1].seq >= svc.seq
        BY <1>1, <1>2, <3>1
      <3> QED
        BY <1>10, <2>5, <3>2, ServiceCloud
    <2>7. svc'.seq <= kv.seq
      <3>1. 1 \in 1..Len(uplink)
        BY <1>1, <2>3
      <3> QED
        BY <1>1, <1>2, <2>6, <3>1
    <2>8. ASSUME NEW i \in 1..Len(uplink'), uplink'[i].t = "roster"
          PROVE  /\ svc'.seq <= uplink'[i].seq /\ uplink'[i].seq <= kv.seq
                 /\ \A j \in 1..i : uplink'[j].t = "roster" => uplink'[j].seq <= uplink'[i].seq
      <3>1. i + 1 \in 1..Len(uplink) /\ uplink'[i] = uplink[i + 1] /\ 1 \in 1..(i + 1)
        BY <1>1, <2>3
      <3>2. ASSUME NEW j \in 1..i PROVE j + 1 \in 1..(i + 1) /\ uplink'[j] = uplink[j + 1]
        BY <1>1, <2>3
      <3>3. svc'.seq <= uplink'[i].seq
        BY <1>1, <1>2, <2>6, <2>8, <3>1
      <3>4. uplink'[i].seq <= kv.seq
        BY <1>2, <2>8, <3>1
      <3>5. \A j \in 1..i : uplink'[j].t = "roster" => uplink'[j].seq <= uplink'[i].seq
        BY <1>2, <2>8, <3>1, <3>2
      <3> QED
        BY <3>3, <3>4, <3>5
    <2> QED
      BY <2>1, <2>4, <2>7, <2>8 DEF INumbers
  <1> QED
    BY <1>4, <1>5, <1>6, <1>7, <1>8, <1>9, <1>10, QuietStep

\* Nothing that a roster says has changed, and no request is on its way.
LEMMA ChangeFrame ==
    ASSUME IChange, link' = link, net' = net, due' = due, rows' = rows, uplink' = uplink, svc' = svc,
           code'.id = code.id, code'.kind = code.kind, \A h \in Handlers : job[h].pc \notin Busy
    PROVE  IChange'
  <1>1. LastSent' = LastSent
    BY DEF LastSent
  <1>2. Listing(link.home)' = Listing(link.home)
    BY ListingIs
  <1>3. Current' <=> Current
    BY <1>1, <1>2 DEF Current
  <1>4. RosterIsDue' <=> RosterIsDue
    BY Zenon DEF RosterIsDue
  <1> QED
    BY <1>3, <1>4 DEF IChange

\* A request changes something and is busy, or changes nothing a roster says.
LEMMA RequestChange ==
    ASSUME Types, ICodes, IChange, NEW h \in Handlers, Requests(h), \A g \in Handlers : job'[g].pc \notin Busy
    PROVE  IChange'
  <1>1. used.codes + 1 \in Nat
    BY DEF Types, Counts
  <1>2. ASSUME NEW pc \in {"save", "notify"}, NEW c \in Nat, NEW removed \in SUBSET Devices,
               Starts(h, pc, c, removed)
        PROVE  FALSE
    <2>1. job'[h].pc = pc
      BY <1>2, StartsJob
    <2> QED
      BY <2>1 DEF Busy
  <1>3. ~ \E role \in Roles, kind \in Kinds : Mint(h, role, kind)
    BY <1>1, <1>2 DEF Mint
  <1>4. ~ RedeemSpokenCode(h)
    BY <1>1, <1>2 DEF RedeemSpokenCode
  <1>5. ~ \E d \in Phones, w \in Watches : AddWatch(h, w, d)
    BY <1>2 DEF AddWatch
  <1>6. ~ \E d \in Phones, role \in Roles : SetRole(h, d, role)
    <2>1. \A d \in Phones, role \in Roles : SetRole(h, d, role) => Starts(h, "save", 0, {})
      BY DEF SetRole
    <2> QED
      BY <1>2, <2>1
  <1>7. ~ \E d \in Devices, atTheBox \in BOOLEAN : Revoke(h, d, atTheBox)
    <2>1. \A d \in Devices : RemovedWith(d) \in SUBSET Devices
      BY DEF RemovedWith, Enrolled
    <2> QED
      BY <1>2, <2>1 DEF Revoke
  <1>8. ASSUME NEW d \in Phones, NEW c \in 1..used.codes, CommitPairing(h, d, c) PROVE IChange'
    <2>1. ~ (d \notin Enrolled /\ StillThisCode(c))
      BY <1>2, <1>8 DEF CommitPairing
    <2>2. UNCHANGED <<rows, code, job, link, net, uplink, svc>>
      BY <1>8, <2>1 DEF CommitPairing
    <2>3. due' = due
      BY <1>8 DEF CommitPairing
    <2> QED
      BY <2>2, <2>3, ChangeFrame
  <1> QED
    BY <1>3, <1>4, <1>5, <1>6, <1>7, <1>8 DEF Requests

\* A request that goes on is still busy, or has marked a roster due.
LEMMA FinishChange ==
    ASSUME Types, IChange, NEW h \in Handlers, Finishes(h), \A g \in Handlers : job'[g].pc \notin Busy
    PROVE  IChange'
  <1>1. job \in [Handlers -> Jobs] /\ code \in Codes
    BY DEF Types
  <1>2. ASSUME NEW ok \in BOOLEAN, Save(h, ok) PROVE FALSE
    <2>1. job'[h].pc = "notify"
      BY <1>1, <1>2 DEF Save, Jobs
    <2> QED
      BY <2>1 DEF Busy
  <1>3. ~ Notify(h)
    <2>1. Notify(h) => job'[h].pc = "decide"
      BY <1>1 DEF Notify, Jobs
    <2> QED
      BY <2>1 DEF Busy
  <1>4. ~ Decide(h)
    <2>1. Decide(h) => job'[h].pc \in {"link", "mark"}
      BY <1>1 DEF Decide, Jobs
    <2> QED
      BY <2>1 DEF Busy
  <1>5. ASSUME MarkDue(h) PROVE IChange'
    <2>1. due' = TRUE
      BY <1>5 DEF MarkDue, DueAfter
    <2>2. RosterIsDue'
      BY <2>1, Zenon DEF RosterIsDue
    <2> QED
      BY <2>2 DEF IChange
  <1>6. ASSUME Show(h) PROVE IChange'
    <2>1. job[h].pc = "show" /\ \A g \in Handlers \ {h} : job'[g] = job[g]
      BY <1>1, <1>6 DEF Show
    <2>2. \A g \in Handlers : job[g].pc \notin Busy
      BY <2>1 DEF Busy
    <2>3. code'.id = code.id /\ code'.kind = code.kind
      BY <1>1, <1>6 DEF Show, Codes
    <2>4. UNCHANGED <<rows, link, net, uplink, svc>>
      BY <1>6 DEF Show
    <2>5. due' = due
      BY <1>6 DEF Show
    <2> QED
      BY <2>2, <2>3, <2>4, <2>5, ChangeFrame
  <1> QED
    BY <1>2, <1>3, <1>4, <1>5, <1>6 DEF Finishes

\* A code that goes without a word leaves its timer.
LEMMA GuessChange ==
    ASSUME Types, ICodes, IChange, WrongGuess \/ Expire
    PROVE  IChange'
  <1>1. UNCHANGED <<rows, link, net, uplink, svc, job>>
    BY DEF WrongGuess, Expire
  <1>2. due' = due
    BY DEF WrongGuess, Expire
  <1>3. code \in Codes
    BY DEF Types
  <1> SUFFICES ASSUME \A h \in Handlers : job[h].pc \notin Busy PROVE IChange'
    BY <1>1 DEF IChange
  <1>4. CASE code'.id = code.id /\ code'.kind = code.kind
    BY <1>1, <1>2, <1>4, ChangeFrame
  <1>5. CASE code' = NoCode
    <2>1. code'.id = 0 /\ code'.kind = "none"
      BY <1>5 DEF NoCode
    <2>2. RosterIsDue' <=> RosterIsDue
      <3>1. net' = net
        BY <1>1
      <3> QED
        BY <1>2, <3>1, Zenon DEF RosterIsDue
    <2>3. CASE net.listed # 0
      BY <1>1, <2>1, <2>3 DEF IChange
    <2>4. CASE net.listed = 0
      <3>1. ASSUME Current PROVE Current'
        <4>1. code.kind # "qr"
          BY <2>4, <3>1 DEF Current
        <4>2. Listing(link.home)' = Listing(link.home)
          BY <1>1, <2>1, <4>1, ListingIs DEF ListingOf
        <4>3. LastSent' = LastSent
          BY <1>1 DEF LastSent
        <4> QED
          BY <2>1, <3>1, <4>2, <4>3 DEF Current
      <3> QED
        BY <1>1, <2>2, <2>4, <3>1 DEF IChange
    <2> QED
      BY <2>3, <2>4
  <1>6. code' = NoCode \/ (code'.id = code.id /\ code'.kind = code.kind)
    BY <1>3 DEF WrongGuess, Expire, Codes
  <1> QED
    BY <1>4, <1>5, <1>6

\* A roster that goes says what the box says now.
LEMMA SendChange ==
    ASSUME Types, ICodes, NEW ok \in BOOLEAN, SendRoster(ok)
    PROVE  IChange'
  <1>1. UNCHANGED <<rows, code, link, svc, job>>
    BY DEF SendRoster
  <1>2. CASE link.ending
    BY <1>1, <1>2 DEF IChange
  <1>3. CASE ~ link.ending
    <2> DEFINE m == [t |-> "roster", seq |-> Numbered(link.home).seq, roster |-> Listing(link.home)]
    <2>1. m \in Messages /\ m.roster = Listing(link.home)
      BY NumberedFacts DEF Messages, Numbers
    <2>2. Len(uplink) < 2 /\ uplink' = Append(uplink, m)
      BY <1>3, SendCloud
    <2> HIDE DEF m
    <2>3. Len(uplink') = Len(uplink) + 1 /\ uplink'[Len(uplink) + 1] = m /\ uplink' # <<>>
      BY <2>1, <2>2, AppendFacts
    <2>4. LastSent' = Listing(link.home)
      BY <2>1, <2>3 DEF LastSent
    <2>5. Listing(link.home)' = Listing(link.home)
      BY <1>1, ListingIs
    <2>6. code.kind = "qr" => net'.listed # 0
      <3>1. code.kind = "qr" => code.id # 0
        BY DEF ICodes, NoCode
      <3> QED
        BY <1>3, <3>1, SendCloud
    <2> QED
      BY <1>1, <2>4, <2>5, <2>6 DEF IChange, Current
  <1> QED
    BY <1>2, <1>3

\* The service takes each roster of a link that does not end.
LEMMA ServiceChange ==
    ASSUME Types, IQueue, INumbers, IChange, Service
    PROVE  IChange'
  <1>1. UNCHANGED <<rows, code, link, net, job>>
    BY DEF Service
  <1>2. due' = due
    BY DEF Service
  <1> SUFFICES ASSUME ~ link.ending PROVE IChange'
    BY <1>1 DEF IChange
  <1>3. uplink # <<>> /\ uplink' = Tail(uplink)
    BY ServiceCloud
  <1>4. /\ Len(uplink') = Len(uplink) - 1 /\ Len(uplink) \in Nat /\ Len(uplink) >= 1
        /\ uplink[1] \in Messages
        /\ \A i \in 1..Len(uplink') : uplink'[i] = uplink[i + 1]
        /\ uplink' \in Seq(Messages)
    BY <1>3, TailFacts
  <1>5. 1 \in 1..Len(uplink)
    BY <1>4
  <1>6. uplink[1].t = "roster"
    BY <1>4, <1>5 DEF IQueue, Messages
  <1>7. uplink[1].seq >= svc.seq
    <2>1. svc.seq \in Nat /\ uplink[1].seq \in Nat
      BY <1>4 DEF Types, Services, Messages
    <2> QED
      BY <1>5, <1>6, <2>1 DEF INumbers
  <1>8. svc'.roster = uplink[1].roster
    BY <1>6, <1>7, ServiceCloud
  <1>9. LastSent' = LastSent
    <2>1. CASE Len(uplink) = 1
      <3>1. uplink' = <<>>
        BY <1>4, <2>1
      <3> QED
        BY <1>3, <1>8, <2>1, <3>1 DEF LastSent
    <2>2. CASE Len(uplink) # 1
      <3>1. uplink' # <<>> /\ Len(uplink') \in 1..Len(uplink')
        BY <1>4, <2>2
      <3>2. uplink'[Len(uplink')] = uplink[Len(uplink)]
        BY <1>4, <3>1
      <3> QED
        BY <1>3, <3>1, <3>2 DEF LastSent
    <2> QED
      BY <2>1, <2>2
  <1>10. Listing(link.home)' = Listing(link.home)
    BY <1>1, ListingIs
  <1>11. Current' <=> Current
    BY <1>1, <1>9, <1>10 DEF Current
  <1>12. RosterIsDue' <=> RosterIsDue
    <2>1. net' = net
      BY <1>1
    <2> QED
      BY <1>2, <2>1, Zenon DEF RosterIsDue
  <1> QED
    BY <1>1, <1>11, <1>12 DEF IChange

\* No change is forgotten by any step.
LEMMA ChangeStep ==
    ASSUME Types, ICodes, IQueue, INumbers, IChange, Next
    PROVE  IChange'
  <1> SUFFICES ASSUME \A g \in Handlers : job'[g].pc \notin Busy PROVE IChange'
    BY DEF IChange
  <1>1. net \in Nets
    BY DEF Types
  <1>2. ASSUME NEW d \in Phones, Check(d) \/ Reconnect(d) PROVE IChange'
    <2>1. UNCHANGED <<rows, code, job, link, net, uplink, svc>>
      BY <1>2 DEF Check, Reconnect
    <2>2. due' = due
      BY <1>2 DEF Check, Reconnect
    <2> QED
      BY <2>1, <2>2, ChangeFrame
  <1>3. ASSUME net'.pc # "up" PROVE IChange'
    BY <1>3 DEF IChange
  <1>4. ASSUME net'.force \/ net'.ranOut PROVE IChange'
    <2>1. RosterIsDue'
      BY <1>4 DEF RosterIsDue
    <2> QED
      BY <2>1 DEF IChange
  <1>5. RunCheck \/ FinishLink \/ Break \/ (\E lost \in BOOLEAN : Crash(lost)) => net'.pc # "up"
    BY NoConnectionCloud DEF RunCheck, FinishLink, Break, Crash
  <1>6. RunWakes => net'.pc # "up"
    BY <1>1 DEF RunWakes, Nets
  <1>7. \A ok \in BOOLEAN : Hello(ok) \/ EndIfIdle(ok) => net'.pc # "up"
    BY HelloCloud, EndCloud
  <1>8. TakeRoster => net'.pc # "up"
    BY TakeCloud
  <1>9. \A ok \in BOOLEAN : HelloOK(ok) => net'.force
    BY HelloOKCloud
  <1>10. (Renew => net'.force) /\ (ListedRunsOut => net'.ranOut)
    BY RenewCloud, RunsOutCloud
  <1>11. ASSUME SendBye PROVE IChange'
    BY <1>11 DEF SendBye, IChange
  <1> HIDE DEF enrolment, cloud, observed
  <1>12. ASSUME Sender PROVE IChange'
    BY <1>3, <1>4, <1>5, <1>6, <1>7, <1>8, <1>9, <1>10, <1>11, <1>12, SendChange DEF Sender
  <1> QED
    BY <1>2, <1>3, <1>4, <1>5, <1>10, <1>12, RequestChange, FinishChange, GuessChange, ServiceChange
       DEF Next

-----------------------------------------------------------------------------
(* The theorems *)

\* The flags stay Boolean.
LEMMA FlagStep == Flags /\ [Next]_vars => Flags'
  <1> SUFFICES ASSUME Flags, [Next]_vars PROVE Flags'
    OBVIOUS
  <1>1. due' \in BOOLEAN
    <2>1. \/ due' = due \/ due' = TRUE \/ due' = FALSE
          \/ due' = (due \/ svc.seq > net.hello) \/ due' = (due \/ link' # link)
      BY ZenonT(40) DEF Next, vars, Requests, Finishes, Sender, Mint, RedeemSpokenCode, CommitPairing, AddWatch,
         SetRole, Revoke, Save, Notify, Decide, MarkDue, DueAfter, Show, WrongGuess, Expire, Crash,
         Check, Reconnect, RunCheck, RunWakes, Hello, HelloOK, EndIfIdle, SendRoster,
         ListedRunsOut, TakeRoster, SendBye, FinishLink, Renew, Service, Break
    <2> QED
      BY <2>1, Zenon DEF Flags
  <1>2. wake' \in BOOLEAN
    <2>1. wake' = wake \/ wake' = FALSE \/ wake' = (wake \/ net.pc = "wait")
      BY DEF Next, vars, Requests, Finishes, Sender, Mint, RedeemSpokenCode, CommitPairing, AddWatch,
         SetRole, Revoke, Save, Notify, Decide, MarkDue, Signal, Show, WrongGuess, Expire, Crash,
         Check, Reconnect, RunCheck, RunWakes, Hello, HelloOK, EndIfIdle, SendRoster,
         ListedRunsOut, TakeRoster, SendBye, FinishLink, Renew, Service, Break
    <2> QED
      BY <2>1, Zenon DEF Flags
  <1>3. receipt' \in BOOLEAN
    <2>1. receipt' = receipt \/ receipt' = FALSE \/ receipt' = (receipt \/ Head(uplink).t = "bye")
      BY DEF Next, vars, Requests, Finishes, Sender, Mint, RedeemSpokenCode, CommitPairing, AddWatch,
         SetRole, Revoke, Save, Notify, Decide, MarkDue, Show, WrongGuess, Expire, Crash,
         Check, Reconnect, RunCheck, RunWakes, Hello, HelloOK, EndIfIdle, SendRoster,
         ListedRunsOut, TakeRoster, SendBye, FinishLink, Renew, Service, Break
    <2> QED
      BY <2>1, Zenon DEF Flags
  <1>4. emptied' \in BOOLEAN
    <2>1. emptied' = emptied \/ \E d \in Devices : emptied' = (emptied \/ Owners = {d})
      BY ZenonT(40) DEF Next, vars, Requests, Finishes, Sender, Mint, RedeemSpokenCode, CommitPairing, AddWatch,
         SetRole, Revoke, Save, Notify, Decide, MarkDue, Show, WrongGuess, Expire, Crash,
         Check, Reconnect, RunCheck, RunWakes, Hello, HelloOK, EndIfIdle, SendRoster,
         ListedRunsOut, TakeRoster, SendBye, FinishLink, Renew, Service, Break
    <2> QED
      BY <2>1, Zenon DEF Flags
  <1> QED
    BY <1>1, <1>2, <1>3, <1>4 DEF Flags

\* The box starts sound.
LEMMA InitIInv == Init => IInv
  <1> SUFFICES ASSUME Init PROVE IInv
    OBVIOUS
  <1>1. Household(disk) /\ HasOwner(disk) /\ rows = disk
    BY HouseholdAssumption DEF Init
  <1>2. /\ code = NoCode /\ job = [h \in Handlers |-> Idle] /\ link = NoLink
        /\ net = NoConnection("check") /\ uplink = <<>> /\ spent = {} /\ gone = {} /\ offered = {}
        /\ kv = [seq |-> 0, sum |-> NoListing]
        /\ svc = [home |-> 0, seq |-> 0, roster |-> NoListing]
        /\ used = [codes |-> 0, homes |-> 0, ops |-> 0, loss |-> 0, fault |-> 0]
    BY DEF Init
  <1>3. Flags
    BY DEF Init, Flags
  <1>4. /\ NoCode.id = 0 /\ NoCode.shown = 0 /\ NoCode.kind = "none" /\ Idle.code = 0
        /\ NoConnection("check").pc = "check" /\ ~ NoConnection("check").idle
    BY DEF NoCode, Idle, NoConnection
  <1>5. Types
    <2>1. kv \in Numbers /\ svc \in Services
      BY <1>2, NoFacts DEF Numbers, Services
    <2>2. used \in Counts
      BY <1>2, RosterAssumption DEF Counts
    <2>3. rows \in [Devices -> Rows] /\ disk \in [Devices -> Rows]
      BY <1>1 DEF Household, Rows
    <2>4. net \in Nets /\ job \in [Handlers -> Jobs]
      BY <1>2, NoFacts
    <2>5. uplink \in Seq(Messages) /\ Len(uplink) <= 2
      BY <1>2
    <2> QED
      BY <1>2, <2>1, <2>2, <2>3, <2>4, <2>5, NoFacts DEF Types
  <1>6. IRows
    BY <1>1 DEF IRows
  <1>7. ICodes
    BY <1>2, <1>4 DEF ICodes
  <1>8. IShown /\ IQueue /\ INumbers /\ IChange
    BY <1>2, <1>4 DEF IShown, IQueue, INumbers, IChange
  <1>9. RevokedStaysGone
    BY <1>2 DEF RevokedStaysGone
  <1> QED
    BY <1>3, <1>5, <1>6, <1>7, <1>8, <1>9 DEF IInv

\* Every step keeps the invariant.
LEMMA StepIInv == IInv /\ [Next]_vars => IInv'
  <1> SUFFICES ASSUME IInv, [Next]_vars PROVE IInv'
    OBVIOUS
  <1>1. Flags'
    BY FlagStep DEF IInv
  <1>2. CASE UNCHANGED vars
    <2>1. UNCHANGED <<rows, disk, code, offered, job, link, kv, net, uplink, svc, spent, gone, used>>
      BY <1>2 DEF vars
    <2>2. due' = due /\ emptied' = emptied
      BY <1>2 DEF vars
    <2>3. Types'
      BY <2>1 DEF IInv, Types
    <2>4. IRows'
      BY <2>1, <2>2 DEF IInv, IRows
    <2>5. ICodes' /\ IShown' /\ IQueue' /\ RevokedStaysGone'
      BY <2>1 DEF IInv, ICodes, IShown, IQueue, RevokedStaysGone
    <2>6. used.fault = 0 => INumbers'
      BY <2>1 DEF IInv, INumbers
    <2>7. used.fault = 0 => IChange'
      <3>1. CASE \A h \in Handlers : job[h].pc \notin Busy
        BY <2>1, <2>2, <3>1, ChangeFrame DEF IInv
      <3>2. CASE ~ \A h \in Handlers : job[h].pc \notin Busy
        BY <2>1, <3>2 DEF IChange
      <3> QED
        BY <3>1, <3>2
    <2> QED
      BY <1>1, <2>1, <2>3, <2>4, <2>5, <2>6, <2>7 DEF IInv
  <1>3. CASE Next
    <2>1. Types /\ IRows /\ ICodes /\ IShown /\ IQueue /\ RevokedStaysGone
      BY DEF IInv
    <2>2. IRows' /\ RevokedStaysGone' /\ gone' \subseteq Devices
      BY <1>3, <2>1, RowStep
    <2>3. rows' \in [Devices -> Rows] /\ disk' \in [Devices -> Rows]
      BY <2>2 DEF IRows, Household, Rows
    <2>4. ICodes' /\ code' \in Codes /\ spent' \subseteq Nat \X Phones /\ offered' \subseteq Phones \X Nat
      BY <1>3, <2>1, CodeStep
    <2>5. /\ link' \in Links /\ net' \in Nets /\ kv' \in Numbers /\ svc' \in Services
          /\ uplink' \in Seq(Messages) /\ Len(uplink') <= 2
          /\ IQueue'
      BY <1>3, <2>1, CloudStep
    <2>6. job' \in [Handlers -> Jobs] /\ used' \in Counts /\ (used'.fault = 0 => used.fault = 0)
      BY <1>3, <2>1, JobStep, UsedStep
    <2>7. Types'
      BY <2>2, <2>3, <2>4, <2>5, <2>6 DEF Types
    <2>8. IShown'
      BY <1>3, <2>1, ShownStep
    <2>9. ASSUME used'.fault = 0 PROVE INumbers' /\ IChange'
      <3>1. INumbers /\ IChange
        BY <2>6, <2>9 DEF IInv
      <3> QED
        BY <1>3, <2>1, <2>9, <3>1, NumbersStep, ChangeStep
    <2> QED
      BY <1>1, <2>2, <2>4, <2>5, <2>7, <2>8, <2>9 DEF IInv
  <1> QED
    BY <1>2, <1>3

\* The inductive invariant holds in every behaviour: the household is sound in
\* memory and on disk, codes are spent once, the home on the screen is kept, and
\* the numbers and the marks of the sender are in order.
THEOREM Invariance == Spec => []IInv
  <1>1. Init => IInv
    BY InitIInv
  <1>2. IInv /\ [Next]_vars => IInv'
    BY StepIInv
  <1> QED
    BY <1>1, <1>2, PTL DEF Spec

\* A code enrols one phone, however many handshakes presented it.
THEOREM CodesAreSpentOnce == Spec => []OneCodeOnePhone
  <1>1. Init => OneCodeOnePhone
    BY DEF Init, OneCodeOnePhone
  <1>2. IInv /\ OneCodeOnePhone /\ [Next]_vars => OneCodeOnePhone'
    <2> SUFFICES ASSUME IInv, OneCodeOnePhone, [Next]_vars PROVE OneCodeOnePhone'
      OBVIOUS
    <2>1. CASE spent' = spent
      BY <2>1 DEF OneCodeOnePhone
    <2>2. ASSUME NEW h \in Handlers, NEW d \in Phones, NEW c \in 1..used.codes,
                 CommitPairing(h, d, c), spent' # spent
          PROVE  OneCodeOnePhone'
      <3>1. spent' = spent \cup {<<c, d>>} /\ code.id = c
        BY <2>2 DEF CommitPairing, StillThisCode
      <3>2. \A s \in spent : s[1] # c
        BY <3>1 DEF IInv, ICodes
      <3> QED
        BY <3>1, <3>2 DEF OneCodeOnePhone
    <2>3. \/ spent' = spent
          \/ \E h \in Handlers, d \in Phones, c \in 1..used.codes : CommitPairing(h, d, c)
      BY DEF Next, vars, Requests, Finishes, Sender, Mint, RedeemSpokenCode, AddWatch,
         SetRole, Revoke, Save, Notify, Decide, MarkDue, Show, WrongGuess, Expire, Crash,
         Check, Reconnect, RunCheck, RunWakes, Hello, HelloOK, EndIfIdle, SendRoster,
         ListedRunsOut, TakeRoster, SendBye, FinishLink, Renew, Service, Break
    <2> QED
      BY <2>1, <2>2, <2>3
  <1> QED
    BY <1>1, <1>2, Invariance, PTL DEF Spec

\* The list of devices stays usable, in memory and on disk: well formed, with an
\* owner unless the last one was removed at the box, and no watch without its
\* phone; through racing requests, failed saves and restarts.
THEOREM RosterSafe == Spec => []RosterIsSound
  <1>1. IInv => RosterIsSound
    <2> SUFFICES ASSUME IInv PROVE RosterIsSound
      OBVIOUS
    <2>1. TypeOK
      BY TypeParts DEF IInv
    <2>2. WatchHasItsPhone
      BY DEF IInv, IRows, Household, WatchHasItsPhone
    <2>3. OwnerRemains
      <3>1. HasOwner(rows) \/ emptied
        BY DEF IInv, IRows
      <3>2. HasOwner(rows) => ((\E d \in Phones : rows[d] # NoRow) => Owners # {})
        BY OwnersArePhones DEF IInv, IRows, HasOwner
      <3> QED
        BY <3>1, <3>2, Zenon DEF OwnerRemains
    <2> QED
      BY <2>1, <2>2, <2>3 DEF RosterIsSound
  <1> QED
    BY <1>1, Invariance, PTL

\* A removal that was reported done stays done, also after a restart.
THEOREM RemovalsStay == Spec => []RevokedStaysGone
  <1>1. IInv => RevokedStaysGone
    BY DEF IInv
  <1> QED
    BY <1>1, Invariance, PTL

\* The home a code on the screen names is the link's, and the link is not ending.
THEOREM ShownHomesStay == Spec => []ShownHomeStays
  <1>1. IInv => ShownHomeStays
    BY DEF IInv, IShown, ShownHomeStays
  <1> QED
    BY <1>1, Invariance, PTL

\* No change is forgotten between the request's mark and the sender's snapshot, as
\* long as no write has failed: a number that was sent and could not be stored is
\* used again, and the service may ignore the roster that carries it.
THEOREM ChangesAreSent == Spec => [](used.fault = 0 => NoChangeIsForgotten)
  <1>1. IInv => (used.fault = 0 => NoChangeIsForgotten)
    <2> SUFFICES ASSUME IInv, used.fault = 0 PROVE NoChangeIsForgotten
      OBVIOUS
    <2>1. (\A h \in Handlers : job[h].pc \in {"idle", "show"}) => \A h \in Handlers : job[h].pc \notin Busy
      BY DEF Busy
    <2>2. IChange
      BY DEF IInv
    <2> QED
      BY <2>1, <2>2 DEF IChange, Current, NoChangeIsForgotten
  <1> QED
    BY <1>1, Invariance, PTL
=============================================================================
