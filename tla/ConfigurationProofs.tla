------------------------- MODULE ConfigurationProofs -------------------------
(***************************************************************************)
(* Proofs about Configuration, for any number of terminals, servers, tasks *)
(* and faults: types, and that config.toml parses and names a server only  *)
(* with a login.                                                           *)
(*                                                                         *)
(* The difficulty is the rollback.  A login puts the record back that it   *)
(* replaced, which may be that of a command that is itself about to put    *)
(* one back, and so on, down to no record at all.  Stack says that these   *)
(* records lie on each other in the order of their logins, and that as     *)
(* long as the lowest of them stands for no record, nobody who is not on   *)
(* the stack relies on a login to the server.                              *)
(***************************************************************************)
EXTENDS Configuration, TLAPS

(* A terminal whose login to s may still be rolled back; one that is about *)
(* to make s the server in the file.                                       *)
Pending(p, s) == pc[p] \in {"config", "rollback"} /\ server[p] = s
Writes(p, s) == pc[p] = "config" /\ server[p] = s

(* What commands read from the file, now or after a power loss. *)
Written == disk \cup {file}

(* Nobody misses a login to the server. *)
Settled(s) == record[s] # None \/ s \in ended

SettledInv(s) ==
    /\ s \in Written => Settled(s)
    /\ \A p \in Proc : Writes(p, s) => Settled(s)

-----------------------------------------------------------------------------
(* The stack of a server: at[p] is the height of the login of p, or 0. *)

On(at) == {p \in Proc : at[p] > 0}

(* Only logins that may be rolled back, each at a height of its own. *)
Heights(s, at) ==
    /\ \A p \in On(at) : Pending(p, s)
    /\ \A p, q \in On(at) : at[p] = at[q] => p = q

(* A record whose login may be rolled back is on the stack if it is the    *)
(* server's or one that a command on the stack puts back.                  *)
Shown(r, s, at) == r # None /\ Pending(r.by, s) => r.by \in On(at)
Covered(s, at) ==
    /\ Shown(record[s], s, at)
    /\ \A p \in On(at) : Shown(previous[p], s, at)

(* The server's record is that of the highest login, and what each login   *)
(* puts back is that of the next.                                          *)
Linked(s, at) ==
    /\ \A p \in On(at) :
          record[s] # None /\ record[s].by \in On(at) /\ at[record[s].by] >= at[p]
    /\ \A p, q \in On(at) : at[p] < at[q] =>
          /\ previous[q] # None /\ previous[q].by \in On(at)
          /\ at[previous[q].by] >= at[p] /\ at[previous[q].by] < at[q]

(* Where a rollback may end with no record, nobody relies on the login. *)
Unowed(s, at) ==
    (\E p \in On(at) : previous[p] = None) =>
        /\ s \in Written => s \in ended
        /\ \A q \in Proc : Writes(q, s) /\ q \notin On(at) => s \in ended

Stack(s, at) == Heights(s, at) /\ Covered(s, at) /\ Linked(s, at) /\ Unowed(s, at)

Bounded(at) == at \in [Proc -> Nat] /\ \E n \in Nat : \A p \in Proc : at[p] <= n
StackInv(s) == \E at : Bounded(at) /\ Stack(s, at)

Parses == file # Torn /\ Torn \notin disk
ServerInv(s) == SettledInv(s) /\ StackInv(s)

IInv == TypeOK /\ Parses /\ \A s \in Server : ServerInv(s)

-----------------------------------------------------------------------------
(* What can happen to the stack of a server *)

(* Nothing but the state of its record, or of commands below config. *)
Same(s) ==
    /\ \A q \in Proc : /\ Pending(q, s)' <=> Pending(q, s)
                       /\ Writes(q, s)' => Writes(q, s)
                       /\ Pending(q, s) => previous'[q] = previous[q]
    /\ \/ record'[s] = record[s]
       \/ record[s] # None /\ record'[s] # None /\ record'[s].by = record[s].by
    /\ s \in Written' => s \in Written
    /\ s \in ended => s \in ended'

LEMMA Owners ==
    ASSUME TypeOK, NEW s \in Server
    PROVE  /\ record[s] # None => record[s].by \in Proc
           /\ \A p \in Proc : previous[p] # None => previous[p].by \in Proc
  BY DEF TypeOK, Optional, Record

LEMMA SameKeeps ==
    ASSUME TypeOK, NEW s \in Server, ServerInv(s), Same(s)
    PROVE  ServerInv(s)'
  <1>1. SettledInv(s)'
    BY DEF ServerInv, SettledInv, Settled, Same
  <1>2. PICK at : Bounded(at) /\ Stack(s, at)
    BY DEF ServerInv, StackInv
  <1>3. \A p \in On(at) : p \in Proc /\ Pending(p, s) /\ previous'[p] = previous[p]
    BY <1>2 DEF Stack, Heights, Same, On
  <1>4. Heights(s, at)'
    BY <1>2, <1>3 DEF Stack, Heights, Same, On
  <1>5. Covered(s, at)'
    <2>1. Shown(record[s], s, at)'
      BY <1>2, Owners DEF Stack, Covered, Shown, Same
    <2>2. ASSUME NEW p \in On(at) PROVE Shown(previous[p], s, at)'
      BY <1>2, <1>3, <2>2, Owners DEF Stack, Covered, Shown, Same
    <2> QED
      BY <2>1, <2>2 DEF Covered, On
  <1>6. Linked(s, at)'
    BY <1>2, <1>3 DEF Stack, Linked, Same, On
  <1>7. Unowed(s, at)'
    BY <1>2, <1>3 DEF Stack, Unowed, Same, On
  <1> QED
    BY <1>1, <1>2, <1>4, <1>5, <1>6, <1>7 DEF ServerInv, StackInv, Stack, Bounded

(* The record is gone, or its login can no longer be rolled back. *)
LEMMA EmptyKeeps ==
    ASSUME NEW s \in Server, SettledInv(s)',
           record'[s] # None => ~Pending(record[s].by, s)'
    PROVE  ServerInv(s)'
  <1> DEFINE at == [q \in Proc |-> 0]
  <1>1. On(at) = {}
    BY SMT DEF On
  <1>2. Bounded(at)
    <2>1. \A q \in Proc : at[q] <= 0
      BY SMT
    <2> QED
      BY <2>1 DEF Bounded
  <1> HIDE DEF at
  <1>3. Shown(record[s], s, at)'
    BY DEF Shown
  <1>4. Stack(s, at)'
    BY <1>1, <1>3 DEF Stack, Heights, Covered, Linked, Unowed
  <1> QED
    BY <1>2, <1>4 DEF ServerInv, StackInv, Bounded

(* A login that has replaced a record unread has nothing to put back: the  *)
(* login that was there is ended already.                                  *)
LEMMA AloneKeeps ==
    ASSUME NEW s \in Server, NEW p \in Proc, Pending(p, s)', s \in ended',
           record'[s] # None, record'[s].by = p, previous'[p] = None
    PROVE  ServerInv(s)'
  <1> DEFINE at == [q \in Proc |-> IF q = p THEN 1 ELSE 0]
  <1>1. On(at) = {p}
    BY SMT DEF On
  <1>2. Bounded(at)
    <2>1. \A q \in Proc : at[q] <= 1
      BY SMT
    <2> QED
      BY <2>1, SMT DEF Bounded
  <1>3. at[p] >= at[p] /\ ~(at[p] < at[p])
    BY SMT
  <1> HIDE DEF at
  <1>4. SettledInv(s)'
    BY DEF SettledInv, Settled
  <1>5. Heights(s, at)' /\ Linked(s, at)'
    BY <1>1, <1>3 DEF Heights, Linked
  <1>6. Covered(s, at)' /\ Unowed(s, at)'
    BY <1>1 DEF Covered, Shown, Unowed
  <1> QED
    BY <1>2, <1>4, <1>5, <1>6 DEF ServerInv, StackInv, Stack, Bounded

(* All others stay as they are. *)
Rest(p, s) ==
    \A q \in Proc \ {p} : /\ Pending(q, s)' <=> Pending(q, s)
                          /\ Writes(q, s)' <=> Writes(q, s)
                          /\ previous'[q] = previous[q]

(* p keeps its login, or gives up without undoing it: what is below it on  *)
(* the stack can no longer be put back.                                    *)
LEMMA LeaveKeeps ==
    ASSUME TypeOK, NEW s \in Server, ServerInv(s), NEW p \in Proc, Rest(p, s),
           Pending(p, s), ~Pending(p, s)', ~Writes(p, s)', record'[s] = record[s],
           s \in Written' => s \in Written \/ Writes(p, s),
           s \in ended => s \in ended' \/ (record[s] # None /\ record[s].by = p)
    PROVE  ServerInv(s)'
  <1>1. SettledInv(s)'
    BY DEF ServerInv, SettledInv, Settled, Rest
  <1>2. PICK at : Bounded(at) /\ Stack(s, at)
    BY DEF ServerInv, StackInv
  <1>3. CASE p \notin On(at)
    <2>1. \A q \in On(at) : q \in Proc \ {p}
      BY <1>3 DEF On
    <2>2. s \in ended => s \in ended'
      BY <1>2, <1>3 DEF Stack, Covered, Shown
    <2>3. Heights(s, at)'
      BY <1>2, <2>1 DEF Stack, Heights, Rest
    <2>4. Covered(s, at)'
      <3>1. Shown(record[s], s, at)'
        BY <1>2, Owners DEF Stack, Covered, Shown, Rest
      <3>2. ASSUME NEW q \in On(at) PROVE Shown(previous[q], s, at)'
        BY <1>2, <2>1, <3>2, Owners DEF Stack, Covered, Shown, Rest
      <3> QED
        BY <3>1, <3>2 DEF Covered, On
    <2>5. Linked(s, at)'
      BY <1>2, <2>1 DEF Stack, Linked, Rest
    <2>6. Unowed(s, at)'
      BY <1>2, <1>3, <2>1, <2>2 DEF Stack, Unowed, Rest
    <2> QED
      BY <1>1, <1>2, <2>3, <2>4, <2>5, <2>6 DEF ServerInv, StackInv, Stack, Bounded
  <1>4. CASE p \in On(at)
    <2> DEFINE up == [q \in Proc |-> IF at[q] <= at[p] THEN 0 ELSE at[q]]
    <2>1. at \in [Proc -> Nat] /\ at[p] \in Nat /\ at[p] > 0
      BY <1>2, <1>4 DEF Bounded, On
    <2>2. up \in [Proc -> Nat]
      BY <2>1, SMT
    <2>3. \A q \in On(up) : /\ q \in On(at) /\ q \in Proc \ {p}
                            /\ up[q] = at[q] /\ at[p] < at[q]
      BY <2>1, SMT DEF On
    <2>4. \A q \in On(at) : at[q] >= at[p] /\ q # p => q \in On(up)
      <3>1. \A q \in On(at) : q \in Proc /\ at[q] \in Nat /\ (at[q] = at[p] => q = p)
        BY <1>2, <1>4, <2>1 DEF Stack, Heights, On
      <3> QED
        BY <2>1, <3>1, SMT DEF On
    <2>5. Bounded(up)
      <3>1. PICK n \in Nat : \A q \in Proc : at[q] <= n
        BY <1>2 DEF Bounded
      <3>2. \A q \in Proc : up[q] <= n
        BY <2>1, <3>1, SMT
      <3> QED
        BY <2>2, <3>1, <3>2 DEF Bounded
    <2> HIDE DEF up
    <2>6. Heights(s, up)'
      BY <1>2, <2>3 DEF Stack, Heights, Rest
    <2>7. \A q \in On(up) : previous[q] # None /\ previous'[q] = previous[q]
      BY <1>2, <1>4, <2>3 DEF Stack, Linked, Rest
    <2>8. Covered(s, up)'
      <3>1. Shown(record[s], s, up)'
        <4> SUFFICES ASSUME record[s] # None, Pending(record[s].by, s)'
                     PROVE  record[s].by \in On(up)
          BY DEF Shown
        <4>1. record[s].by \in Proc \ {p}
          BY Owners
        <4>2. record[s].by \in On(at)
          BY <1>2, <4>1 DEF Rest, Stack, Covered, Shown
        <4>3. at[record[s].by] >= at[p]
          BY <1>2, <1>4 DEF Stack, Linked
        <4> QED
          BY <2>4, <4>1, <4>2, <4>3
      <3>2. ASSUME NEW q \in On(up) PROVE Shown(previous[q], s, up)'
        <4> SUFFICES ASSUME Pending(previous[q].by, s)'
                     PROVE  previous[q].by \in On(up)
          BY <2>7 DEF Shown
        <4>1. previous[q].by \in Proc \ {p}
          BY <2>3, <2>7, Owners
        <4>2. previous[q].by \in On(at) /\ at[previous[q].by] >= at[p]
          BY <1>2, <1>4, <2>3 DEF Stack, Linked
        <4> QED
          BY <2>4, <4>1, <4>2
      <3> QED
        BY <3>1, <3>2 DEF Covered
    <2>9. Linked(s, up)'
      <3>1. ASSUME NEW q \in On(up)
            PROVE  /\ record[s] # None /\ record[s].by \in On(up)
                   /\ up[record[s].by] >= up[q]
        <4>1. /\ record[s] # None /\ record[s].by \in On(at)
              /\ at[record[s].by] >= at[q] /\ at[q] > at[p]
          BY <1>2, <2>3, <3>1 DEF Stack, Linked
        <4>2. record[s].by \in Proc /\ q \in Proc
          BY <4>1, <2>3 DEF On
        <4>3. at[record[s].by] > at[p]
          BY <2>1, <4>1, <4>2, SMT
        <4>4. record[s].by \in On(up)
          BY <2>1, <2>4, <4>1, <4>2, <4>3, SMT
        <4> QED
          BY <2>3, <3>1, <4>1, <4>4
      <3>2. ASSUME NEW q \in On(up), NEW r \in On(up), up[q] < up[r]
            PROVE  /\ previous[r] # None /\ previous[r].by \in On(up)
                   /\ up[previous[r].by] >= up[q] /\ up[previous[r].by] < up[r]
        <4>1. /\ previous[r] # None /\ previous[r].by \in On(at)
              /\ at[previous[r].by] >= at[q] /\ at[previous[r].by] < at[r]
              /\ at[q] > at[p]
          BY <1>2, <2>3, <3>2 DEF Stack, Linked
        <4>2. previous[r].by \in Proc /\ q \in Proc
          BY <4>1, <2>3 DEF On
        <4>3. at[previous[r].by] > at[p]
          BY <2>1, <4>1, <4>2, SMT
        <4>4. previous[r].by \in On(up)
          BY <2>1, <2>4, <4>1, <4>2, <4>3, SMT
        <4> QED
          BY <2>3, <3>2, <4>1, <4>4
      <3> QED
        BY <3>1, <3>2, <2>7 DEF Linked
    <2>10. Unowed(s, up)'
      BY <2>7 DEF Unowed
    <2> QED
      BY <1>1, <2>5, <2>6, <2>8, <2>9, <2>10 DEF ServerInv, StackInv, Stack, Bounded
  <1> QED
    BY <1>3, <1>4

(* p puts back what its login replaced. *)
LEMMA PopKeeps ==
    ASSUME TypeOK, NEW s \in Server, ServerInv(s), NEW p \in Proc, Rest(p, s),
           Pending(p, s), ~Pending(p, s)', ~Writes(p, s), ~Writes(p, s)',
           record[s] # None, record[s].by = p, record'[s] = previous[p],
           s \in Written' => s \in Written, s \in ended => s \in ended'
    PROVE  ServerInv(s)'
  <1>1. PICK at : Bounded(at) /\ Stack(s, at)
    BY DEF ServerInv, StackInv
  <1> DEFINE down == [at EXCEPT ![p] = 0]
  <1>2. p \in On(at)
    BY <1>1 DEF Stack, Covered, Shown
  <1>3. at \in [Proc -> Nat]
    BY <1>1 DEF Bounded
  <1>4. down \in [Proc -> Nat]
    BY <1>3, SMT
  <1>5. On(down) = On(at) \ {p}
    BY <1>3, SMT DEF On
  <1>6. \A q \in Proc \ {p} : down[q] = at[q]
    BY <1>3
  <1>7. Bounded(down)
    <2>1. PICK n \in Nat : \A q \in Proc : at[q] <= n
      BY <1>1 DEF Bounded
    <2>2. \A q \in Proc : down[q] <= n
      BY <1>3, <2>1, SMT
    <2> QED
      BY <1>4, <2>1, <2>2 DEF Bounded
  <1> HIDE DEF down
  <1>8. \A q \in On(down) : q \in Proc \ {p} /\ q \in On(at) /\ previous'[q] = previous[q]
    BY <1>5 DEF On, Rest
  <1>9. \A q \in On(down) : at[q] < at[p]
    <2>1. \A q \in On(down) : q \in Proc /\ at[p] >= at[q] /\ at[q] # at[p]
      BY <1>1, <1>2, <1>8 DEF Stack, Heights, Linked
    <2> QED
      BY <1>3, <2>1, SMT
  <1>10. Heights(s, down)'
    BY <1>1, <1>6, <1>8 DEF Stack, Heights, Rest
  <1>11. Covered(s, down)'
    <2>1. ASSUME NEW q \in On(at), NEW r, r = previous[q], r # None, Pending(r.by, s)'
          PROVE  r.by \in On(down)
      <3>1. r.by \in Proc \ {p}
        BY <2>1, Owners DEF On
      <3>2. r.by \in On(at)
        BY <1>1, <2>1, <3>1 DEF Rest, Stack, Covered, Shown
      <3> QED
        BY <1>5, <3>1, <3>2
    <2>2. Shown(record[s], s, down)'
      BY <1>2, <2>1 DEF Shown
    <2>3. ASSUME NEW q \in On(down) PROVE Shown(previous[q], s, down)'
      BY <1>8, <2>1 DEF Shown
    <2> QED
      BY <2>2, <2>3 DEF Covered
  <1>12. Linked(s, down)'
    <2>1. ASSUME NEW q \in On(down)
          PROVE  /\ previous[p] # None /\ previous[p].by \in On(down)
                 /\ down[previous[p].by] >= down[q]
      <3>1. /\ previous[p] # None /\ previous[p].by \in On(at)
            /\ at[previous[p].by] >= at[q] /\ at[previous[p].by] < at[p]
        BY <1>1, <1>2, <1>8, <1>9, <2>1 DEF Stack, Linked
      <3>2. previous[p].by \in Proc /\ previous[p].by # p
        BY <1>3, <3>1, SMT DEF On
      <3> QED
        BY <1>5, <1>6, <1>8, <2>1, <3>1, <3>2
    <2>2. ASSUME NEW q \in On(down), NEW r \in On(down), down[q] < down[r]
          PROVE  /\ previous[r] # None /\ previous[r].by \in On(down)
                 /\ down[previous[r].by] >= down[q] /\ down[previous[r].by] < down[r]
      <3>1. down[q] = at[q] /\ down[r] = at[r] /\ q \in Proc /\ r \in Proc
        BY <1>6, <1>8, <2>2
      <3>2. /\ previous[r] # None /\ previous[r].by \in On(at)
            /\ at[previous[r].by] >= at[q] /\ at[previous[r].by] < at[r]
        BY <1>1, <1>8, <2>2, <3>1 DEF Stack, Linked
      <3>3. at[r] < at[p]
        BY <1>9, <2>2
      <3>4. previous[r].by \in Proc /\ previous[r].by # p
        BY <1>3, <3>1, <3>2, <3>3, SMT DEF On
      <3> QED
        BY <1>5, <1>6, <3>1, <3>2, <3>4
    <2> QED
      BY <1>8, <2>1, <2>2 DEF Linked
  <1>13. Unowed(s, down)'
    <2> SUFFICES ASSUME NEW q \in On(down), previous'[q] = None
                 PROVE  /\ s \in Written' => s \in ended'
                        /\ \A r \in Proc : Writes(r, s)' /\ r \notin On(down) => s \in ended'
      BY DEF Unowed
    <2>1. q \in On(at) /\ previous[q] = None
      BY <1>8
    <2> QED
      BY <1>1, <1>5, <2>1 DEF Stack, Unowed, Rest
  <1>14. SettledInv(s)'
    <2>1. CASE previous[p] # None
      BY <2>1 DEF SettledInv, Settled
    <2>2. CASE previous[p] = None
      <3>1. On(down) = {}
        BY <1>1, <1>2, <1>8, <1>9, <2>2 DEF Stack, Linked
      <3> QED
        BY <1>1, <1>2, <1>5, <2>2, <3>1 DEF Stack, Unowed, SettledInv, Settled, Rest
    <2> QED
      BY <2>1, <2>2
  <1> QED
    BY <1>7, <1>10, <1>11, <1>12, <1>13, <1>14 DEF ServerInv, StackInv, Stack, Bounded

(* p logs in: its login lies on the record it replaces. *)
LEMMA PushKeeps ==
    ASSUME TypeOK, NEW s \in Server, ServerInv(s), NEW p \in Proc, Rest(p, s),
           ~Pending(p, s), Pending(p, s)', previous'[p] = record[s],
           record'[s] # None, record'[s].by = p,
           s \in Written' => s \in Written, s \in ended => s \in ended'
    PROVE  ServerInv(s)'
  <1>1. SettledInv(s)'
    BY DEF SettledInv, Settled
  <1>2. PICK at : Bounded(at) /\ Stack(s, at)
    BY DEF ServerInv, StackInv
  <1>3. PICK n \in Nat : \A q \in Proc : at[q] <= n
    BY <1>2 DEF Bounded
  <1>4. at \in [Proc -> Nat]
    BY <1>2 DEF Bounded
  <1> DEFINE top == [at EXCEPT ![p] = n + 1]
  <1>5. top \in [Proc -> Nat]
    BY <1>3, <1>4, SMT
  <1>6. top[p] = n + 1 /\ \A q \in Proc \ {p} : top[q] = at[q]
    BY <1>4
  <1>7. On(top) = On(at) \cup {p} /\ p \notin On(at)
    <2>1. p \notin On(at)
      BY <1>2 DEF Stack, Heights
    <2> QED
      BY <1>3, <1>4, <1>6, <2>1, SMT DEF On
  <1>8. Bounded(top)
    <2>1. n + 1 \in Nat /\ \A q \in Proc : top[q] <= n + 1
      BY <1>3, <1>4, SMT
    <2> QED
      BY <1>5, <2>1 DEF Bounded
  <1> HIDE DEF top
  <1>9. \A q \in On(at) : /\ q \in Proc \ {p} /\ top[q] = at[q] /\ top[q] < top[p]
                          /\ previous'[q] = previous[q]
    <2>1. \A q \in On(at) : q \in Proc \ {p}
      BY <1>7 DEF On
    <2>2. \A q \in On(at) : at[q] < n + 1
      BY <1>3, <1>4, <2>1, SMT
    <2> QED
      BY <1>6, <2>1, <2>2 DEF Rest
  <1>10. Heights(s, top)'
    <2>1. \A q \in On(top) : Pending(q, s)'
      BY <1>2, <1>7, <1>9 DEF Stack, Heights, Rest
    <2>2. ASSUME NEW q \in On(top), NEW r \in On(top), top[q] = top[r]
          PROVE  q = r
      <3>1. CASE q = p \/ r = p
        BY <1>5, <1>7, <1>9, <2>2, <3>1, SMT
      <3>2. CASE q # p /\ r # p
        BY <1>2, <1>7, <1>9, <2>2, <3>2 DEF Stack, Heights
      <3> QED
        BY <3>1, <3>2
    <2> QED
      BY <2>1, <2>2 DEF Heights
  <1>11. Covered(s, top)'
    <2>1. Shown(record[s], s, top)'
      BY <1>7 DEF Shown
    <2>2. ASSUME NEW r, r # None => r.by \in Proc, Shown(r, s, at),
                 r # None, Pending(r.by, s)'
          PROVE  r.by \in On(top)
      BY <1>7, <2>2 DEF Shown, Rest
    <2>3. Shown(previous[p], s, top)'
      BY <1>2, <2>2, Owners DEF Stack, Covered, Shown
    <2>4. ASSUME NEW q \in On(at) PROVE Shown(previous[q], s, top)'
      BY <1>2, <1>9, <2>2, <2>4, Owners DEF Stack, Covered, Shown, On
    <2> QED
      BY <1>7, <2>1, <2>3, <2>4 DEF Covered
  <1>12. Linked(s, top)'
    <2>1. \A q \in On(top) : top[p] >= top[q]
      <3>1. top[p] \in Nat /\ top[p] >= top[p]
        BY <1>5, SMT
      <3>2. \A q \in On(at) : top[q] \in Nat /\ top[q] < top[p]
        BY <1>5, <1>9
      <3>3. \A q \in On(at) : top[p] >= top[q]
        BY <3>1, <3>2, SMT
      <3> QED
        BY <1>7, <3>1, <3>3
    <2>2. ASSUME NEW q \in On(top), NEW r \in On(top), top[q] < top[r]
          PROVE  /\ previous'[r] # None /\ previous'[r].by \in On(top)
                 /\ top[previous'[r].by] >= top[q] /\ top[previous'[r].by] < top[r]
      <3>1. q # p
        <4>1. top[p] >= top[r] /\ r \in Proc
          BY <1>7, <2>1, <2>2 DEF On
        <4> QED
          BY <1>5, <2>2, <4>1, SMT
      <3>2. q \in On(at) /\ top[q] = at[q]
        BY <1>7, <1>9, <2>2, <3>1
      <3>3. CASE r = p
        <4>1. record[s] # None /\ record[s].by \in On(at) /\ at[record[s].by] >= at[q]
          BY <1>2, <3>2 DEF Stack, Linked
        <4> QED
          BY <1>7, <1>9, <3>2, <3>3, <4>1
      <3>4. CASE r # p
        <4>1. r \in On(at) /\ top[r] = at[r] /\ previous'[r] = previous[r]
          BY <1>7, <1>9, <2>2, <3>4
        <4>2. /\ previous[r] # None /\ previous[r].by \in On(at)
              /\ at[previous[r].by] >= at[q] /\ at[previous[r].by] < at[r]
          BY <1>2, <2>2, <3>2, <4>1 DEF Stack, Linked
        <4> QED
          BY <1>7, <1>9, <3>2, <4>1, <4>2
      <3> QED
        BY <3>3, <3>4
    <2> QED
      BY <1>7, <2>1, <2>2 DEF Linked
  <1>13. Unowed(s, top)'
    <2> SUFFICES ASSUME NEW q \in On(top), previous'[q] = None
                 PROVE  /\ s \in Written' => s \in ended'
                        /\ \A r \in Proc : Writes(r, s)' /\ r \notin On(top) => s \in ended'
      BY DEF Unowed
    <2>1. CASE q = p
      <3>1. record[s] = None
        BY <2>1
      <3> QED
        BY <1>7, <3>1 DEF ServerInv, SettledInv, Settled, Rest
    <2>2. CASE q # p
      BY <1>2, <1>7, <1>9, <2>2 DEF Stack, Unowed, Rest
    <2> QED
      BY <2>1, <2>2
  <1> QED
    BY <1>1, <1>8, <1>10, <1>11, <1>12, <1>13 DEF ServerInv, StackInv, Stack, Bounded

-----------------------------------------------------------------------------
(* What each action does to the stacks *)

LEMMA OthersRest ==
    ASSUME TypeOK, NEW p \in Proc, NEW s \in Server,
           pc' = [pc EXCEPT ![p] = pc'[p]], UNCHANGED server,
           previous' = [previous EXCEPT ![p] = previous'[p]]
    PROVE  Rest(p, s)
  BY DEF TypeOK, Rest, Pending, Writes

(* A step of p that is about another server. *)
LEMMA ElsewhereKeeps ==
    ASSUME TypeOK, NEW s \in Server, ServerInv(s), NEW p \in Proc, Rest(p, s),
           server[p] # s, UNCHANGED server, record'[s] = record[s],
           s \in Written' => s \in Written, s \in ended => s \in ended'
    PROVE  ServerInv(s)'
  <1>1. ~Pending(p, s) /\ ~Pending(p, s)' /\ ~Writes(p, s)'
    BY DEF Pending, Writes
  <1>2. Same(s)
    BY <1>1 DEF Same, Rest
  <1> QED
    BY <1>2, SameKeeps

(* A step of p that is not from or to a login that may be rolled back. *)
LEMMA AsideKeeps ==
    ASSUME TypeOK, NEW s \in Server, ServerInv(s), NEW p \in Proc,
           pc' = [pc EXCEPT ![p] = pc'[p]],
           pc[p] \notin {"config", "rollback"}, pc'[p] \notin {"config", "rollback"},
           UNCHANGED <<file, disk, previous>>, server' = [server EXCEPT ![p] = server'[p]],
           \/ record'[s] = record[s]
           \/ record[s] # None /\ record'[s] # None /\ record'[s].by = record[s].by,
           s \in ended => s \in ended'
    PROVE  ServerInv(s)'
  <1>1. \A q \in Proc : /\ Pending(q, s)' <=> Pending(q, s)
                        /\ Writes(q, s)' <=> Writes(q, s)
    BY DEF TypeOK, Pending, Writes
  <1>2. Same(s)
    BY <1>1 DEF Same, Written
  <1> QED
    BY <1>2, SameKeeps

LEMMA UserStep ==
    ASSUME TypeOK, NEW s \in Server, ServerInv(s), NEW p \in Proc,
           \/ \E u \in Optional(Server) : Begin(p, u)
           \/ LoadConfig(p) \/ CheckUnreadable(p) \/ CheckRefuses(p)
           \/ Authorized(p) \/ Fails(p)
    PROVE  ServerInv(s)'
  <1>1. /\ pc' = [pc EXCEPT ![p] = pc'[p]]
        /\ pc[p] \notin {"config", "rollback"} /\ pc'[p] \notin {"config", "rollback"}
    BY DEF TypeOK, Begin, LoadConfig, CheckUnreadable, CheckRefuses, Authorized, Fails, Goto
  <1>2. UNCHANGED <<file, disk, previous, record, ended>>
    BY DEF Begin, LoadConfig, CheckUnreadable, CheckRefuses, Authorized, Fails
  <1>3. server' = [server EXCEPT ![p] = server'[p]]
    BY DEF TypeOK, Begin, LoadConfig, CheckUnreadable, CheckRefuses, Authorized, Fails
  <1> QED
    BY <1>1, <1>2, <1>3, AsideKeeps

LEMMA CheckPassesStep ==
    ASSUME TypeOK, NEW s \in Server, ServerInv(s), NEW p \in Proc, CheckPasses(p)
    PROVE  ServerInv(s)'
  <1>1. /\ pc' = [pc EXCEPT ![p] = "authorize"] /\ pc[p] = "check"
        /\ UNCHANGED <<file, disk, user, server, previous>>
    BY DEF CheckPasses, Goto
  <1>2. pc' = [pc EXCEPT ![p] = pc'[p]] /\ pc'[p] = "authorize"
    BY <1>1 DEF TypeOK
  <1>3. CASE s = server[p] /\ Has(server[p], "revoked")
    <2>1. record'[s] = None /\ s \in ended'
      BY <1>3 DEF CheckPasses, TypeOK
    <2> QED
      BY <2>1, EmptyKeeps DEF SettledInv, Settled
  <1>4. CASE ~(s = server[p] /\ Has(server[p], "revoked"))
    <2>1. record'[s] = record[s] /\ (s \in ended => s \in ended')
      BY <1>4 DEF CheckPasses, TypeOK
    <2>2. server' = [server EXCEPT ![p] = server'[p]]
      BY <1>1 DEF TypeOK
    <2> QED
      BY <1>1, <1>2, <2>1, <2>2, AsideKeeps
  <1> QED
    BY <1>3, <1>4

LEMMA SaveLoginStep ==
    ASSUME TypeOK, NEW s \in Server, ServerInv(s), NEW p \in Proc, SaveLogin(p)
    PROVE  ServerInv(s)'
  <1>1. pc[p] = "save" /\ UNCHANGED <<file, disk, user, server, faults, ended>>
    BY DEF SaveLogin
  <1>2. CASE record[server[p]] = None \/ Has(server[p], "expired")
    <2>1. /\ previous' = [previous EXCEPT ![p] = record[server[p]]]
          /\ record' = [record EXCEPT ![server[p]] =
                          [by |-> p, refreshed |-> FALSE, status |-> "valid"]]
          /\ pc' = [pc EXCEPT ![p] = "config"]
      BY <1>2 DEF SaveLogin, Install, Goto
    <2>2. /\ pc' = [pc EXCEPT ![p] = pc'[p]]
          /\ previous' = [previous EXCEPT ![p] = previous'[p]]
          /\ pc'[p] = "config" /\ previous'[p] = record[server[p]]
      BY <2>1 DEF TypeOK
    <2>3. Rest(p, s)
      BY <1>1, <2>2, OthersRest
    <2>4. ~Pending(p, s) /\ Written' = Written
      BY <1>1 DEF Pending, Written
    <2>5. CASE s = server[p]
      <3>1. record'[s] = [by |-> p, refreshed |-> FALSE, status |-> "valid"]
        BY <2>1, <2>5 DEF TypeOK
      <3>2. record'[s] # None /\ record'[s].by = p
        <4>1. record'[s] \in Record
          BY <3>1 DEF Record
        <4>2. record'[s] # None
          BY <4>1, ConfigurationAssumption
        <4>3. record'[s].by = p
          BY <3>1
        <4> QED
          BY <4>2, <4>3
      <3>3. Pending(p, s)'
        BY <1>1, <2>2, <2>5 DEF Pending
      <3> QED
        BY <1>1, <2>2, <2>3, <2>4, <2>5, <3>2, <3>3, PushKeeps
    <2>6. CASE s # server[p]
      <3>1. record'[s] = record[s]
        BY <2>1, <2>6 DEF TypeOK
      <3> QED
        BY <1>1, <2>3, <2>4, <2>6, <3>1, ElsewhereKeeps
    <2> QED
      BY <2>5, <2>6
  <1>3. CASE ~(record[server[p]] = None \/ Has(server[p], "expired"))
    <2>1. pc' = [pc EXCEPT ![p] = "loadLogout"] /\ UNCHANGED <<record, previous>>
      BY <1>3 DEF SaveLogin, Goto
    <2>2. pc' = [pc EXCEPT ![p] = pc'[p]] /\ pc'[p] = "loadLogout"
      BY <2>1 DEF TypeOK
    <2>3. server' = [server EXCEPT ![p] = server'[p]]
      BY <1>1 DEF TypeOK
    <2> QED
      BY <1>1, <2>1, <2>2, <2>3, AsideKeeps
  <1> QED
    BY <1>2, <1>3

LEMMA SaveUnreadStep ==
    ASSUME TypeOK, NEW s \in Server, ServerInv(s), NEW p \in Proc, SaveUnread(p)
    PROVE  ServerInv(s)'
  <1>1. /\ pc[p] = "save" /\ UNCHANGED <<file, disk, user, server>>
        /\ record' = [record EXCEPT ![server[p]] =
                        [by |-> p, refreshed |-> FALSE, status |-> "valid"]]
        /\ ended' = ended \cup {server[p]}
    BY DEF SaveUnread, Install
  <1>2. /\ pc' = [pc EXCEPT ![p] = pc'[p]] /\ pc'[p] = "config"
        /\ previous' = [previous EXCEPT ![p] = previous'[p]] /\ previous'[p] = None
    BY DEF SaveUnread, Goto, TypeOK
  <1>3. CASE s = server[p]
    <2>1. record'[s] = [by |-> p, refreshed |-> FALSE, status |-> "valid"]
      BY <1>1, <1>3 DEF TypeOK
    <2>2. record'[s] \in Record /\ record'[s].by = p
      BY <2>1 DEF Record
    <2>3. Pending(p, s)' /\ s \in ended'
      BY <1>1, <1>2, <1>3 DEF Pending
    <2> QED
      BY <1>2, <2>2, <2>3, AloneKeeps, ConfigurationAssumption
  <1>4. CASE s # server[p]
    <2>1. record'[s] = record[s] /\ Written' = Written /\ Rest(p, s)
      BY <1>1, <1>2, <1>4, OthersRest DEF TypeOK, Written
    <2> QED
      BY <1>1, <1>4, <2>1, ElsewhereKeeps
  <1> QED
    BY <1>3, <1>4

(* What a failed Replace leaves is not going to be rolled back. *)
LEMMA SaveFailsStep ==
    ASSUME TypeOK, NEW s \in Server, ServerInv(s), NEW p \in Proc, SaveFails(p)
    PROVE  ServerInv(s)'
  <1>1. /\ pc[p] = "save" /\ UNCHANGED <<file, disk, user, server, previous>>
        /\ pc' = [pc EXCEPT ![p] = pc'[p]] /\ pc'[p] = "revoke"
        /\ server' = [server EXCEPT ![p] = server'[p]]
        /\ s \in ended => s \in ended'
    BY DEF SaveFails, Goto, TypeOK
  <1>2. CASE record'[s] = record[s]
    BY <1>1, <1>2, AsideKeeps
  <1>3. CASE record'[s] # record[s]
    <2>1. s = server[p] /\ (record[s] # None => s \in ended')
      BY <1>3 DEF SaveFails, Install, TypeOK
    <2>2. record'[s] \in {None, [by |-> p, refreshed |-> FALSE, status |-> "valid"]}
      BY <1>3, <2>1 DEF SaveFails, Install, TypeOK
    <2>3. record'[s] # None => ~Pending(record[s].by, s)'
      <3>1. ~Pending(p, s)'
        BY <1>1 DEF Pending
      <3> QED
        BY <2>2, <3>1
    <2>4. SettledInv(s)'
      <3>1. Written' = Written /\ \A q \in Proc : Writes(q, s)' <=> Writes(q, s)
        BY <1>1 DEF Written, Writes, TypeOK
      <3> QED
        BY <1>1, <2>1, <3>1 DEF ServerInv, SettledInv, Settled
    <2> QED
      BY <2>3, <2>4, EmptyKeeps
  <1> QED
    BY <1>2, <1>3

LEMMA SaveConfigStep ==
    ASSUME TypeOK, NEW s \in Server, ServerInv(s), NEW p \in Proc, SaveConfig(p)
    PROVE  ServerInv(s)'
  <1>1. /\ pc[p] = "config" /\ file' = server[p] /\ disk' = disk \cup {server[p]}
        /\ UNCHANGED <<record, user, server, faults>>
    BY DEF SaveConfig, Synced
  <1>2. /\ pc' = [pc EXCEPT ![p] = pc'[p]] /\ pc'[p] = "idle"
        /\ previous' = [previous EXCEPT ![p] = previous'[p]]
    BY DEF SaveConfig, Goto, TypeOK
  <1>3. Rest(p, s)
    BY <1>1, <1>2, OthersRest
  <1>4. CASE s = server[p]
    <2>1. Pending(p, s) /\ ~Pending(p, s)' /\ Writes(p, s) /\ ~Writes(p, s)'
      BY <1>1, <1>2, <1>4 DEF Pending, Writes
    <2>2. s \in ended => s \in ended' \/ (record[s] # None /\ record[s].by = p)
      BY <1>4 DEF SaveConfig, Mine
    <2> QED
      BY <1>1, <1>3, <2>1, <2>2, LeaveKeeps
  <1>5. CASE s # server[p]
    <2>1. s \in Written' => s \in Written
      BY <1>1, <1>5 DEF Written
    <2>2. s \in ended => s \in ended'
      BY <1>5 DEF SaveConfig
    <2> QED
      BY <1>1, <1>3, <1>5, <2>1, <2>2, ElsewhereKeeps
  <1> QED
    BY <1>4, <1>5

LEMMA ConfigFailsStep ==
    ASSUME TypeOK, NEW s \in Server, ServerInv(s), NEW p \in Proc, ConfigFails(p)
    PROVE  ServerInv(s)'
  <1>1. \A q \in Proc : /\ Pending(q, s)' <=> Pending(q, s)
                        /\ Writes(q, s)' => Writes(q, s)
    BY DEF TypeOK, ConfigFails, Goto, Pending, Writes
  <1>2. Same(s)
    BY <1>1 DEF Same, Written, ConfigFails
  <1> QED
    BY <1>2, SameKeeps

(* A command that stops before it has put anything back. *)
LEMMA GivesUpStep ==
    ASSUME TypeOK, NEW s \in Server, ServerInv(s), NEW p \in Proc,
           \/ RestoreFails(p) \/ Kill(p)
           \/ RestoreLogin(p) /\ ~StillWritten(p)
    PROVE  ServerInv(s)'
  <1>1. UNCHANGED <<file, disk, record, user, server, ended>>
    BY DEF RestoreFails, Kill, RestoreLogin
  <1>2. /\ pc' = [pc EXCEPT ![p] = pc'[p]] /\ pc'[p] \in {"load", "revoke"}
        /\ previous' = [previous EXCEPT ![p] = previous'[p]]
    BY DEF RestoreFails, Kill, RestoreLogin, Goto, TypeOK
  <1>3. Rest(p, s)
    BY <1>1, <1>2, OthersRest
  <1>4. ~Pending(p, s)' /\ ~Writes(p, s)' /\ Written' = Written
    BY <1>1, <1>2 DEF Pending, Writes, Written
  <1>5. CASE Pending(p, s)
    BY <1>1, <1>3, <1>4, <1>5, LeaveKeeps
  <1>6. CASE ~Pending(p, s)
    <2>1. Same(s)
      BY <1>1, <1>3, <1>4, <1>6 DEF Same, Rest
    <2> QED
      BY <2>1, SameKeeps
  <1> QED
    BY <1>5, <1>6

LEMMA RestoreLoginStep ==
    ASSUME TypeOK, NEW s \in Server, ServerInv(s), NEW p \in Proc, RestoreLogin(p)
    PROVE  ServerInv(s)'
  <1>1. CASE ~StillWritten(p)
    BY <1>1, GivesUpStep
  <1>2. CASE StillWritten(p)
    <2>1. /\ pc[p] = "rollback" /\ UNCHANGED <<file, disk, user, server, faults, ended>>
          /\ record' = [record EXCEPT ![server[p]] = previous[p]]
      BY <1>2 DEF RestoreLogin
    <2>2. /\ pc' = [pc EXCEPT ![p] = pc'[p]] /\ pc'[p] = "revoke"
          /\ previous' = [previous EXCEPT ![p] = previous'[p]]
      BY DEF RestoreLogin, Goto, TypeOK
    <2>3. Rest(p, s)
      BY <2>1, <2>2, OthersRest
    <2>4. Written' = Written /\ ~Pending(p, s)' /\ ~Writes(p, s) /\ ~Writes(p, s)'
      BY <2>1, <2>2 DEF Written, Pending, Writes
    <2>5. CASE s = server[p]
      <3>1. /\ record[s] # None /\ record[s].by = p /\ record'[s] = previous[p]
            /\ Pending(p, s)
        BY <1>2, <2>1, <2>5 DEF StillWritten, Mine, TypeOK, Pending
      <3> QED
        BY <2>1, <2>3, <2>4, <3>1, PopKeeps
    <2>6. CASE s # server[p]
      <3>1. record'[s] = record[s]
        BY <2>1, <2>6 DEF TypeOK
      <3> QED
        BY <2>1, <2>3, <2>4, <2>6, <3>1, ElsewhereKeeps
    <2> QED
      BY <2>5, <2>6
  <1> QED
    BY <1>1, <1>2

LEMMA RevokeIssuedStep ==
    ASSUME TypeOK, NEW s \in Server, ServerInv(s), NEW p \in Proc, RevokeIssued(p)
    PROVE  ServerInv(s)'
  <1>1. /\ pc[p] = "revoke" /\ UNCHANGED <<file, disk, user, server, previous, ended>>
        /\ pc' = [pc EXCEPT ![p] = pc'[p]] /\ pc'[p] = "load"
        /\ server' = [server EXCEPT ![p] = server'[p]]
    BY DEF RevokeIssued, Goto, TypeOK
  <1>2. \/ record'[s] = record[s]
        \/ record[s] # None /\ record'[s] # None /\ record'[s].by = record[s].by
    <2>1. CASE record' = record
      BY <2>1
    <2>2. CASE /\ record[server[p]] # None
               /\ record' = [record EXCEPT ![server[p]].status = "revoked"]
      BY <2>2, ConfigurationAssumption DEF TypeOK, Optional, Record
    <2> QED
      BY <2>1, <2>2 DEF RevokeIssued, Has
  <1> QED
    BY <1>1, <1>2, AsideKeeps

LEMMA LogoutStep ==
    ASSUME TypeOK, NEW s \in Server, ServerInv(s), NEW p \in Proc, Logout(p)
    PROVE  ServerInv(s)'
  <1>1. /\ pc[p] = "logout" /\ UNCHANGED <<file, disk, user, server, previous>>
        /\ pc' = [pc EXCEPT ![p] = pc'[p]] /\ pc'[p] = "load"
        /\ server' = [server EXCEPT ![p] = server'[p]]
        /\ record' = [record EXCEPT ![server[p]] = None]
        /\ s \in ended => s \in ended'
    BY DEF Logout, Goto, TypeOK
  <1>2. CASE s = server[p]
    <2>1. record'[s] = None
      BY <1>1, <1>2 DEF TypeOK
    <2>2. record[s] # None => s \in ended'
      BY <1>2 DEF Logout
    <2>3. Written' = Written /\ \A q \in Proc : Writes(q, s)' <=> Writes(q, s)
      BY <1>1 DEF Written, Writes, TypeOK
    <2>4. SettledInv(s)'
      BY <1>1, <2>2, <2>3 DEF ServerInv, SettledInv, Settled
    <2> QED
      BY <2>1, <2>4, EmptyKeeps
  <1>3. CASE s # server[p]
    <2>1. record'[s] = record[s]
      BY <1>1, <1>3 DEF TypeOK
    <2> QED
      BY <1>1, <2>1, AsideKeeps
  <1> QED
    BY <1>2, <1>3

LEMMA WorldStep ==
    ASSUME TypeOK, NEW s \in Server, ServerInv(s),
           \/ PowerLoss \/ Flush
           \/ \E t \in Server : Refreshed(t) \/ Lapses(t) \/ LogoutElsewhere(t)
    PROVE  ServerInv(s)'
  <1>1. CASE PowerLoss
    <2>1. /\ \A q \in Proc : pc'[q] \in {"idle", "load"}
          /\ record' \in [Server -> Optional(Record)] /\ Written' \subseteq Written
          /\ s \in ended => s \in ended'
          /\ record[s] # None /\ record'[s] = None => s \in ended'
      BY <1>1 DEF PowerLoss, Written
    <2>2. \A q \in Proc : ~Pending(q, s)' /\ ~Writes(q, s)'
      BY <2>1 DEF Pending, Writes
    <2>3. SettledInv(s)'
      BY <2>1, <2>2 DEF ServerInv, SettledInv, Settled
    <2>4. record'[s] # None => record'[s].by \in Proc
      BY <2>1 DEF Optional, Record
    <2> QED
      BY <2>2, <2>3, <2>4, EmptyKeeps
  <1>2. CASE Flush
    <2>1. Same(s)
      BY <1>2 DEF Flush, Same, Pending, Writes, Written
    <2> QED
      BY <2>1, SameKeeps
  <1>3. ASSUME NEW t \in Server, Refreshed(t) \/ Lapses(t) PROVE ServerInv(s)'
    <2>1. UNCHANGED <<file, disk, pc, server, previous, ended>>
      BY <1>3 DEF Refreshed, Lapses
    <2>2. \/ record'[s] = record[s]
          \/ record[s] # None /\ record'[s] # None /\ record'[s].by = record[s].by
      <3>1. record[t] # None /\ record[t] \in Record
        BY <1>3 DEF Refreshed, Lapses, Has, TypeOK, Optional
      <3>2. PICK r : /\ record' = [record EXCEPT ![t] = r] /\ r \in Record
                     /\ r.by = record[t].by
        BY <1>3, <3>1 DEF Refreshed, Lapses, Record
      <3>3. r # None
        BY <3>2, ConfigurationAssumption
      <3> QED
        BY <3>1, <3>2, <3>3 DEF TypeOK
    <2>3. Same(s)
      BY <2>1, <2>2 DEF Same, Pending, Writes, Written
    <2> QED
      BY <2>3, SameKeeps
  <1>4. ASSUME NEW t \in Server, LogoutElsewhere(t) PROVE ServerInv(s)'
    <2>1. UNCHANGED <<file, disk, pc, server, previous>> /\ (s \in ended => s \in ended')
      BY <1>4 DEF LogoutElsewhere
    <2>2. \A q \in Proc : /\ Pending(q, s)' <=> Pending(q, s)
                          /\ Writes(q, s)' <=> Writes(q, s)
      BY <2>1 DEF Pending, Writes
    <2>3. CASE s = t
      <3>1. record'[s] = None /\ s \in ended'
        BY <1>4, <2>3 DEF LogoutElsewhere, TypeOK
      <3> QED
        BY <3>1, EmptyKeeps DEF SettledInv, Settled
    <2>4. CASE s # t
      <3>1. record'[s] = record[s]
        BY <1>4, <2>4 DEF LogoutElsewhere, TypeOK
      <3>2. Same(s)
        BY <2>1, <2>2, <3>1 DEF Same, Written
      <3> QED
        BY <3>2, SameKeeps
    <2> QED
      BY <2>3, <2>4
  <1> QED
    BY <1>1, <1>2, <1>3, <1>4

-----------------------------------------------------------------------------
(* Types, and the file *)

LEMMA TypeInit == Init => TypeOK
  BY ConfigurationAssumption DEF Init, TypeOK, Content, Optional, PC

LEMMA ResolvedType ==
    ASSUME TypeOK, file # Torn, NEW p \in Proc
    PROVE  Resolved(p) \in Server
  BY ConfigurationAssumption DEF TypeOK, Resolved, Content, Optional

LEMMA FaultType ==
    ASSUME TypeOK, Fault \/ UNCHANGED faults
    PROVE  faults' \in 0..MaxFault
  BY ConfigurationAssumption DEF TypeOK, Fault

LEMMA InstallType ==
    ASSUME TypeOK, NEW p \in Proc, Install(p)
    PROVE  record' \in [Server -> Optional(Record)]
  <1>1. [by |-> p, refreshed |-> FALSE, status |-> "valid"] \in Record
    BY DEF Record
  <1> QED
    BY <1>1 DEF Install, TypeOK, Optional

LEMMA CommandType ==
    ASSUME TypeOK, NEW p \in Proc, CommandStep(p)
    PROVE  TypeOK'
  <1>1. CASE LoadConfig(p)
    BY <1>1, ResolvedType DEF LoadConfig, Goto, TypeOK, PC, user
  <1>2. CASE CheckPasses(p)
    BY <1>2 DEF CheckPasses, Goto, TypeOK, PC, user, Optional
  <1>3. CASE CheckRefuses(p)
    <2>1. faults' \in 0..MaxFault
      BY <1>3, FaultType DEF CheckRefuses
    <2> QED
      BY <1>3, <2>1 DEF CheckRefuses, Goto, TypeOK, PC, user
  <1>4. CASE Authorized(p)
    BY <1>4 DEF Authorized, Goto, TypeOK, PC, user
  <1>5. CASE SaveLogin(p)
    <2>1. record' \in [Server -> Optional(Record)]
      BY <1>5, InstallType DEF SaveLogin, TypeOK
    <2>2. previous' \in [Proc -> Optional(Record)]
      BY <1>5 DEF SaveLogin, TypeOK
    <2> QED
      BY <1>5, <2>1, <2>2 DEF SaveLogin, Goto, TypeOK, PC, user
  <1>6. CASE SaveConfig(p)
    BY <1>6 DEF SaveConfig, Synced, Goto, TypeOK, PC, user, Content, Optional
  <1>7. CASE RestoreLogin(p)
    BY <1>7 DEF RestoreLogin, Goto, TypeOK, PC, user, Optional
  <1>8. CASE RevokeIssued(p)
    <2>1. faults' \in 0..MaxFault
      BY <1>8, FaultType DEF RevokeIssued
    <2>2. record' \in [Server -> Optional(Record)]
      <3>1. CASE Mine(p) /\ record' = [record EXCEPT ![server[p]].status = "revoked"]
        <4>1. server[p] \in Server /\ record[server[p]] \in Record
          BY <3>1 DEF Mine, TypeOK, Optional
        <4>2. [record[server[p]] EXCEPT !.status = "revoked"] \in Record
          BY <4>1 DEF Record
        <4> QED
          BY <3>1, <4>1, <4>2 DEF TypeOK, Optional
      <3> QED
        BY <1>8, <3>1 DEF RevokeIssued, TypeOK
    <2> QED
      BY <1>8, <2>1, <2>2 DEF RevokeIssued, Goto, TypeOK, PC, user
  <1>9. CASE Logout(p)
    BY <1>9 DEF Logout, Goto, TypeOK, PC, user, Optional
  <1>10. CASE CheckUnreadable(p)
    BY <1>10 DEF CheckUnreadable, Goto, TypeOK, PC, user
  <1> QED
    BY <1>1, <1>2, <1>3, <1>4, <1>5, <1>6, <1>7, <1>8, <1>9, <1>10 DEF CommandStep

LEMMA FailureType ==
    ASSUME TypeOK, NEW p \in Proc,
           \/ SaveUnread(p) \/ SaveFails(p)
           \/ ConfigFails(p) \/ RestoreFails(p) \/ Fails(p) \/ Kill(p)
    PROVE  TypeOK'
  <1>1. faults' \in 0..MaxFault /\ UNCHANGED <<file, disk, user, server>>
    BY FaultType DEF SaveUnread, SaveFails, ConfigFails, RestoreFails, Fails, Kill
  <1>2. pc' \in [Proc -> PC] /\ previous' \in [Proc -> Optional(Record)]
    BY DEF SaveUnread, SaveFails, ConfigFails, RestoreFails, Fails, Kill, Goto, TypeOK,
       PC, Optional
  <1>3. record' \in [Server -> Optional(Record)] /\ ended' \subseteq Server
    <2>1. CASE UNCHANGED <<record, ended>>
      BY <2>1 DEF TypeOK
    <2>2. ASSUME NEW r, r = [record EXCEPT ![server[p]] = None]
          PROVE  r \in [Server -> Optional(Record)]
      BY <2>2 DEF TypeOK, Optional
    <2>3. CASE SaveUnread(p) \/ SaveFails(p)
      BY <2>2, <2>3, InstallType DEF SaveUnread, SaveFails, TypeOK
    <2> QED
      BY <2>1, <2>3 DEF ConfigFails, RestoreFails, Fails, Kill
  <1> QED
    BY <1>1, <1>2, <1>3 DEF TypeOK, user

LEMMA WorldType ==
    ASSUME TypeOK,
           \/ PowerLoss \/ Flush
           \/ \E t \in Server : Refreshed(t) \/ Lapses(t) \/ LogoutElsewhere(t)
    PROVE  TypeOK'
  <1>1. CASE PowerLoss
    <2>1. faults' \in 0..MaxFault
      BY <1>1, FaultType DEF PowerLoss
    <2>2. /\ pc' \in [Proc -> PC] /\ previous' \in [Proc -> Optional(Record)]
          /\ record' \in [Server -> Optional(Record)] /\ ended' \subseteq Server
      BY <1>1 DEF PowerLoss, PC, Optional, TypeOK
    <2> QED
      BY <1>1, <2>1, <2>2 DEF PowerLoss, TypeOK, user
  <1>2. CASE Flush
    BY <1>2 DEF Flush, TypeOK, user
  <1>3. ASSUME NEW t \in Server, Refreshed(t) \/ Lapses(t) PROVE TypeOK'
    <2>1. record[t] \in Record
      BY <1>3 DEF Refreshed, Lapses, Has, TypeOK, Optional
    <2>2. PICK r \in Record : record' = [record EXCEPT ![t] = r]
      BY <1>3, <2>1 DEF Refreshed, Lapses, Record
    <2> QED
      BY <1>3, <2>2 DEF Refreshed, Lapses, TypeOK, Optional, user
  <1>4. ASSUME NEW t \in Server, LogoutElsewhere(t) PROVE TypeOK'
    BY <1>4 DEF LogoutElsewhere, TypeOK, Optional, user
  <1> QED
    BY <1>1, <1>2, <1>3, <1>4

LEMMA TypeStep == TypeOK /\ [Next]_vars => TypeOK'
  <1> SUFFICES ASSUME TypeOK, [Next]_vars PROVE TypeOK'
    OBVIOUS
  <1>1. ASSUME NEW p \in Proc, \E s \in Optional(Server) : Begin(p, s)
        PROVE  TypeOK'
    BY <1>1, ConfigurationAssumption DEF Begin, Goto, TypeOK, PC
  <1>2. CASE UNCHANGED vars
    BY <1>2 DEF vars, user, TypeOK
  <1> QED
    BY <1>1, <1>2, CommandType, FailureType, WorldType DEF Next

(* Only a login that parses ever reaches the disk. *)
LEMMA ParsesStep == TypeOK /\ Parses /\ [Next]_vars => Parses'
  <1> SUFFICES ASSUME TypeOK, Parses, [Next]_vars PROVE Parses'
    OBVIOUS
  <1>1. ASSUME NEW p \in Proc, SaveConfig(p) PROVE Parses'
    BY <1>1, ConfigurationAssumption DEF SaveConfig, Synced, Parses, TypeOK
  <1>2. CASE PowerLoss \/ Flush
    BY <1>2 DEF PowerLoss, Flush, Parses
  <1>3. CASE UNCHANGED <<file, disk>>
    BY <1>3 DEF Parses
  <1> QED
    BY <1>1, <1>2, <1>3 DEF Next, vars, CommandStep, Begin, LoadConfig, CheckPasses,
       CheckUnreadable, CheckRefuses, Authorized, SaveLogin, SaveUnread, SaveFails, RestoreLogin, RevokeIssued, Logout,
       ConfigFails, RestoreFails, Fails, Kill, Refreshed, Lapses, LogoutElsewhere

-----------------------------------------------------------------------------
LEMMA InitIInv == Init => IInv
  <1> SUFFICES ASSUME Init PROVE IInv
    OBVIOUS
  <1>1. TypeOK /\ Parses
    BY TypeInit, ConfigurationAssumption DEF Init, Parses
  <1>2. ASSUME NEW s \in Server PROVE ServerInv(s)
    <2> DEFINE at == [q \in Proc |-> 0]
    <2>1. On(at) = {}
      BY SMT DEF On
    <2>2. Bounded(at)
      <3>1. \A q \in Proc : at[q] <= 0
        BY SMT
      <3> QED
        BY <3>1 DEF Bounded
    <2> HIDE DEF at
    <2>3. SettledInv(s) /\ record[s] = None
      BY ConfigurationAssumption DEF Init, SettledInv, Written, Writes
    <2>4. Stack(s, at)
      BY <2>1, <2>3 DEF Stack, Heights, Covered, Shown, Linked, Unowed
    <2> QED
      BY <2>2, <2>3, <2>4 DEF ServerInv, StackInv
  <1> QED
    BY <1>1, <1>2 DEF IInv

LEMMA NextIInv == IInv /\ [Next]_vars => IInv'
  <1> SUFFICES ASSUME IInv, [Next]_vars PROVE IInv'
    OBVIOUS
  <1>1. TypeOK /\ Parses /\ TypeOK' /\ Parses'
    BY TypeStep, ParsesStep DEF IInv
  <1>2. ASSUME NEW s \in Server PROVE ServerInv(s)'
    <2>1. ServerInv(s)
      BY <1>2 DEF IInv
    <2>2. CASE UNCHANGED vars
      <3>1. Same(s)
        BY <2>2 DEF vars, user, Same, Pending, Writes, Written
      <3> QED
        BY <1>1, <2>1, <3>1, SameKeeps
    <2>3. ASSUME NEW p \in Proc, CommandStep(p) PROVE ServerInv(s)'
      BY <1>1, <2>1, <2>3, UserStep, CheckPassesStep, SaveLoginStep, SaveConfigStep,
         RestoreLoginStep, RevokeIssuedStep, LogoutStep DEF CommandStep
    <2>4. ASSUME NEW p \in Proc,
                 \/ \E u \in Optional(Server) : Begin(p, u)
                 \/ SaveUnread(p) \/ SaveFails(p)
                 \/ ConfigFails(p) \/ RestoreFails(p) \/ Fails(p) \/ Kill(p)
          PROVE  ServerInv(s)'
      BY <1>1, <2>1, <2>4, UserStep, SaveUnreadStep, SaveFailsStep, ConfigFailsStep,
         GivesUpStep
    <2> QED
      BY <1>1, <2>1, <2>2, <2>3, <2>4, WorldStep DEF Next
  <1> QED
    BY <1>1, <1>2 DEF IInv

(* The records that logins would put back lie on each other in the order   *)
(* of the logins, and nobody relies on a login that a rollback can empty,  *)
(* but one that has replaced a record unread: that record's login counts   *)
(* as ended from then on, not only when the rollback removes the record.   *)
THEOREM InductiveInvariant == Spec => []IInv
  BY InitIInv, NextIInv, PTL DEF Spec

(* The types of the file, the records and what each command remembers.     *)
THEOREM TypeCorrect == Spec => []TypeOK
  <1>1. IInv => TypeOK
    BY DEF IInv
  <1> QED
    BY <1>1, InductiveInvariant, PTL

(* config.toml always parses, and it names a server only with a login: one *)
(* that is stored, or was until somebody ended it, a login replaced it     *)
(* unread, a failed replacement cost it or a power loss took it            *)
(* (manager.go:173-185, plaintext.go:133-140).  In no other way does a     *)
(* rollback, a crash or their interleaving take the login away             *)
(* (config.Save, persistLogin, RestoreLogin).                              *)
THEOREM FileUsable == Spec => []ConfigUsable
  <1>1. IInv => ConfigUsable
    <2> SUFFICES ASSUME IInv PROVE ConfigUsable
      OBVIOUS
    <2>1. Parses
      BY DEF IInv
    <2>2. ASSUME file \in Server PROVE record[file] # None \/ file \in ended
      BY <2>2 DEF IInv, ServerInv, SettledInv, Settled, Written
    <2> QED
      BY <2>1, <2>2 DEF ConfigUsable, Parses
  <1> QED
    BY <1>1, InductiveInvariant, PTL
=============================================================================
