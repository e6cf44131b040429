-------------------------- MODULE ClientViewProofs --------------------------
(***************************************************************************)
(* Whose notices a browser gets to see, for any users, any statuses, any   *)
(* number of logins and any order in which notices, logouts and            *)
(* reconnects happen.                                                      *)
(***************************************************************************)
EXTENDS ClientView, SequenceTheorems, TLAPS

\* A socket in a room carries notices of the user of its handshake alone.
WireIsRooms == wire # <<>> => link = "joined" /\ \A n \in Range(wire) : n.user = room

ViewInv == TypeOK /\ WireIsRooms

-----------------------------------------------------------------------------
(* Elements of a sequence that grows, shrinks or is cut                    *)

LEMMA RangeOfAppend ==
    ASSUME NEW S, NEW s \in Seq(S), NEW e \in S
    PROVE  /\ Append(s, e) \in Seq(S) /\ Append(s, e) # <<>>
           /\ Range(Append(s, e)) = Range(s) \cup {e}
BY AppendProperties DEF Range

LEMMA RangeOfTail ==
    ASSUME NEW S, NEW s \in Seq(S), s # <<>>
    PROVE  /\ Tail(s) \in Seq(S) /\ Head(s) \in S /\ Head(s) \in Range(s)
           /\ Range(Tail(s)) \subseteq Range(s)
BY HeadTailProperties DEF Range

LEMMA RangeOfPush ==
    ASSUME stored \in Seq(Notice), Len(stored) <= MaxItems, NEW n \in Notice
    PROVE  /\ Push(n) \in Seq(Notice) /\ Len(Push(n)) <= MaxItems
           /\ Range(Push(n)) \subseteq Range(stored) \cup {n}
<1> DEFINE all == <<n>> \o stored
           k == IF Len(stored) < MaxItems THEN Len(stored) + 1 ELSE MaxItems
<1>1. all \in Seq(Notice) /\ Len(all) = Len(stored) + 1
      /\ \A i \in 1 .. Len(all) : all[i] \in Range(stored) \cup {n}
  BY ConcatProperties DEF Range
<1>2. k \in 0 .. Len(all) /\ k <= MaxItems
  BY <1>1, ClientAssumption
<1> HIDE DEF all, k
<1>3. /\ SubSeq(all, 1, k) \in Seq(Notice) /\ Len(SubSeq(all, 1, k)) = k
      /\ \A i \in 1 .. k : SubSeq(all, 1, k)[i] = all[i]
  BY <1>1, <1>2, SubSeqProperties
<1>4. Push(n) = SubSeq(all, 1, k)
  BY DEF Push, all, k
<1> QED
  BY <1>1, <1>2, <1>3, <1>4 DEF Range

-----------------------------------------------------------------------------
LEMMA InitView == Init => ViewInv
BY ClientAssumption
   DEF Init, ViewInv, TypeOK, WireIsRooms, Statuses, Range

\* Notices on the server, and what the card shows.
LEMMA QuietStep ==
    ASSUME ViewInv,
           \/ \E u \in Users : StatusMoves(u)
           \/ \E n \in unsent : EmitLost(n)
           \/ AutoRefresh \/ PreferencesArrive
           \/ \E s \in answers : Answered(s) \/ AnswerLost(s)
    PROVE  ViewInv'
<1> USE DEF ViewInv, serverVars, socketVars, cardVars
<1>1. UNCHANGED <<cookie, page, socketVars, stored, mounts>>
  BY DEF StatusMoves, EmitLost, AutoRefresh, PreferencesArrive, Answered, AnswerLost
<1>2. TypeOK'
  <2>1. CASE \E u \in Users : StatusMoves(u)
    BY <1>1, <2>1 DEF StatusMoves, TypeOK, Notice, Statuses
  <2>2. CASE \E n \in unsent : EmitLost(n)
    BY <1>1, <2>2 DEF EmitLost, TypeOK
  <2>3. CASE AutoRefresh \/ PreferencesArrive
    BY <1>1, <2>3, ClientAssumption DEF AutoRefresh, PreferencesArrive, TypeOK
  <2>4. CASE \E s \in answers : Answered(s) \/ AnswerLost(s)
    BY <1>1, <2>4 DEF Answered, AnswerLost, TypeOK
  <2> QED
    BY <2>1, <2>2, <2>3, <2>4
<1> QED
  BY <1>1, <1>2 DEF WireIsRooms

LEMMA EmitStep ==
    ASSUME ViewInv, NEW n \in unsent, EmitWithdrawUpdated(n)
    PROVE  ViewInv'
<1> USE DEF ViewInv, cardVars
<1>1. /\ n \in Notice
      /\ unsent' = unsent \ {n}
      /\ UNCHANGED <<status, cookie, page, link, room, stored, cardVars, mounts>>
  BY DEF EmitWithdrawUpdated, TypeOK
<1>2. CASE link = "joined" /\ room = n.user
  <2>1. wire' = Append(wire, n)
    BY <1>2 DEF EmitWithdrawUpdated
  <2>2. wire' \in Seq(Notice) /\ Range(wire') = Range(wire) \cup {n}
    BY <1>1, <2>1, RangeOfAppend DEF TypeOK
  <2>3. \A m \in Range(wire) : m.user = room
    BY DEF WireIsRooms, Range
  <2> QED
    BY <1>1, <1>2, <2>2, <2>3 DEF TypeOK, WireIsRooms
<1>3. CASE ~(link = "joined" /\ room = n.user)
  <2>1. wire' = wire
    BY <1>3 DEF EmitWithdrawUpdated
  <2> QED
    BY <1>1, <2>1 DEF TypeOK, WireIsRooms
<1> QED
  BY <1>2, <1>3

\* The connection, and the pages.
LEMMA VisitStep ==
    ASSUME ViewInv,
           \/ HandleConnection \/ ConnectionDrops \/ Reconnect
           \/ \E u \in Visitors : Login(u)
           \/ Logout \/ Reload \/ ClearNotifications
    PROVE  ViewInv'
<1> USE ClientAssumption DEF ViewInv, serverVars, socketVars, cardVars, Mount
<1>0. Range(<<>>) = {} /\ <<>> \in Seq(Notice) /\ Len(<<>>) = 0
  BY DEF Range
<1>1. CASE HandleConnection \/ ConnectionDrops \/ Reconnect
  BY <1>0, <1>1 DEF HandleConnection, ConnectionDrops, Reconnect, TypeOK,
     WireIsRooms
<1>2. ASSUME NEW u \in Visitors, Login(u) PROVE ViewInv'
  <2>1. TypeOK'
    BY <1>2 DEF Login, TypeOK
  <2> QED
    BY <1>2, <2>1 DEF Login, WireIsRooms
<1>3. CASE Logout
  <2>1. TypeOK'
    BY <1>3 DEF Logout, TypeOK
  <2> QED
    BY <1>3, <2>1 DEF Logout, WireIsRooms
<1>4. CASE Reload
  <2>1. TypeOK'
    BY <1>4 DEF Reload, TypeOK
  <2> QED
    BY <1>0, <1>4, <2>1 DEF Reload, WireIsRooms
<1>5. CASE ClearNotifications
  BY <1>0, <1>5 DEF ClearNotifications, TypeOK, WireIsRooms
<1> QED
  BY <1>1, <1>2, <1>3, <1>4, <1>5

LEMMA HandleStep ==
    ASSUME ViewInv, HandleWithdrawUpdated
    PROVE  ViewInv'
<1> USE ClientAssumption DEF ViewInv, serverVars
<1> DEFINE n == Head(wire)
<1>1. wire # <<>> /\ wire' = Tail(wire)
      /\ UNCHANGED <<serverVars, cookie, page, link, room, shown, auto, mounts>>
  BY DEF HandleWithdrawUpdated
<1>2. /\ wire' \in Seq(Notice) /\ n \in Notice /\ n \in Range(wire)
      /\ Range(wire') \subseteq Range(wire)
  BY <1>1, RangeOfTail DEF TypeOK
<1>3. /\ stored' \in Seq(Notice) /\ Len(stored') <= MaxItems
      /\ Range(stored') \subseteq Range(stored) \cup {n}
  BY <1>2, RangeOfPush DEF HandleWithdrawUpdated, TypeOK
<1>4. answers' \subseteq Statuses
  BY <1>1 DEF HandleWithdrawUpdated, TypeOK
<1> HIDE DEF n
<1>5. TypeOK'
  BY <1>1, <1>2, <1>3, <1>4 DEF TypeOK
<1>6. WireIsRooms'
  BY <1>1, <1>2 DEF WireIsRooms
<1> QED
  BY <1>5, <1>6

LEMMA ViewStep ==
    ASSUME ViewInv, [Next]_vars
    PROVE  ViewInv'
<1>1. CASE UNCHANGED vars
  BY <1>1 DEF vars, serverVars, socketVars, cardVars, ViewInv, TypeOK,
     WireIsRooms
<1> QED
  BY <1>1, QuietStep, EmitStep, VisitStep, HandleStep DEF Next

\* What is under way to the socket agrees with its room, however logins,
\* reconnects and notices interleave.
THEOREM ViewInvariance == Spec => []ViewInv
BY InitView, ViewStep, PTL DEF Spec

\* Type correctness of the browser, its socket and the notices.
THEOREM ViewTypeCorrect == Spec => []TypeOK
<1>1. ViewInv => TypeOK
  BY DEF ViewInv
<1> QED
  BY <1>1, ViewInvariance, PTL

\* WithdrawGateway emits to the room of the handshake and to no other, and
\* nothing under way outlives its connection.
THEOREM RoomsKept == Spec => []WireIsRooms
<1>1. ViewInv => WireIsRooms
  BY DEF ViewInv
<1> QED
  BY <1>1, ViewInvariance, PTL

\* So a notification that AppShell stores is of the room the socket is in.
THEOREM StoredAreRooms == Spec => StoredIsRooms
<1> DEFINE New == \A n \in Range(stored') \ Range(stored) : link = "joined" /\ n.user = room
<1>1. ViewInv /\ [Next]_vars => [New]_vars
  <2> SUFFICES ASSUME ViewInv, Next PROVE New
    OBVIOUS
  <2>1. CASE HandleWithdrawUpdated
    <3>1. wire # <<>> /\ Head(wire) \in Notice /\ Head(wire) \in Range(wire)
      BY <2>1, RangeOfTail DEF HandleWithdrawUpdated, ViewInv, TypeOK
    <3>2. Range(stored') \subseteq Range(stored) \cup {Head(wire)}
      BY <2>1, <3>1, RangeOfPush DEF HandleWithdrawUpdated, ViewInv, TypeOK
    <3> QED
      BY <3>1, <3>2 DEF ViewInv, WireIsRooms
  <2>2. CASE ClearNotifications
    <3>1. Range(stored') = {}
      BY <2>2 DEF ClearNotifications, Range
    <3> QED
      BY <3>1
  <2>3. CASE \/ \E u \in Users : StatusMoves(u)
             \/ \E n \in unsent : EmitWithdrawUpdated(n) \/ EmitLost(n)
             \/ HandleConnection \/ ConnectionDrops \/ Reconnect
             \/ \E u \in Visitors : Login(u)
             \/ Logout \/ Reload
             \/ AutoRefresh \/ PreferencesArrive
             \/ \E s \in answers : Answered(s) \/ AnswerLost(s)
    <3>1. stored' = stored
      BY <2>3 DEF StatusMoves, EmitWithdrawUpdated, EmitLost, HandleConnection, ConnectionDrops,
         Reconnect, Login, Logout, Reload, Mount, AutoRefresh, PreferencesArrive, Answered,
         AnswerLost
    <3> QED
      BY <3>1
  <2> QED
    BY <2>1, <2>2, <2>3 DEF Next
<1> QED
  BY <1>1, ViewInvariance, PTL DEF Spec, StoredIsRooms
=============================================================================
