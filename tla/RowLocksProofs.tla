--------------------------- MODULE RowLocksProofs ---------------------------
(***************************************************************************)
(* Proofs about RowLocks, for any number of transactions, orders, variants *)
(* and accounts: the types, with the exclusion of clashing locks, and      *)
(* CyclesAreInverted.                                                      *)
(*                                                                         *)
(* The second rests on a hierarchy of the rows (Below).  What a            *)
(* transaction has locked and the statements it has left always fit        *)
(* together (Good) in such a way that whatever it locks next is above all  *)
(* it holds, unless the statement is one of the inverted ones.  In a       *)
(* circle without inversions everybody would then want a row above a row   *)
(* that somebody else wants, and the rows wanted would have no lowest.     *)
(***************************************************************************)
EXTENDS RowLocks, FiniteSetTheorems, WellFoundedInduction, TLAPS

\* A non-empty set of numbers has a least one.
LEMMA Least ==
    ASSUME NEW T \in SUBSET Nat, T # {}
    PROVE  \E x \in T : \A y \in T : ~(y < x)
<1>1. IsWellFoundedOn(OpToRel(<, Nat), Nat)
    BY NatLessThanWellFounded
<1>2. \A x, y \in Nat : y < x => <<y, x>> \in OpToRel(<, Nat)
    BY DEF OpToRel
<1>3. \E x \in T : \A y \in T : ~(<<y, x>> \in OpToRel(<, Nat))
    BY <1>1, WFMin
<1>4. QED
    BY <1>2, <1>3

\* What is left of a sequence of statements once the first is done.
LEMMA Rest ==
    ASSUME NEW s \in Seq(Statements), s # <<>>
    PROVE  /\ Len(s) \in Nat /\ 1 \in 1 .. Len(s)
           /\ Head(s) = s[1] /\ Head(s) \in Statements
           /\ Tail(s) \in Seq(Statements)
           /\ Len(Tail(s)) = Len(s) - 1
           /\ \A i \in 1 .. Len(Tail(s)) : i + 1 \in 1 .. Len(s) /\ Tail(s)[i] = s[i + 1]
    OBVIOUS

\* The variants of an order before what is left of a transaction.
LEMMA Prefixed ==
    ASSUME NEW f \in Seq(Statements), NEW s \in Seq(Statements)
    PROVE  /\ f \o s \in Seq(Statements)
           /\ Len(f) \in Nat /\ Len(s) \in Nat
           /\ Len(f \o s) = Len(f) + Len(s)
           /\ \A i \in 1 .. Len(f) : (f \o s)[i] = f[i]
           /\ \A i \in 1 .. Len(s) : (f \o s)[Len(f) + i] = s[i]
           /\ \A i \in 1 .. Len(f \o s) : i \in 1 .. Len(f) \/ i - Len(f) \in 1 .. Len(s)
    OBVIOUS

LEMMA VariantStatements ==
    ASSUME NEW o \in Orders, NEW n \in 0 .. Len(Lines[o]), NEW what \in {"variant", "line", "debit"}
    PROVE  /\ ForVariants(what, o, n) \in Seq(Statements)
           /\ Len(ForVariants(what, o, n)) = n
           /\ \A i \in 1 .. n : /\ ForVariants(what, o, n)[i].do = what
                                /\ ForVariants(what, o, n)[i].of \in Variants
<1>1. Len(Lines[o]) \in Nat /\ \A i \in 1 .. Len(Lines[o]) : Lines[o][i] \in Variants
    BY RowLocksAssumption
<1>2. n \in Nat /\ \A i \in 1 .. n : Do(what, Lines[o][i]) \in Statements
    BY <1>1 DEF Do, Statements, Tables
<1>3. QED
    BY <1>1, <1>2 DEF ForVariants, Do

\* The statements of an order.
LEMMA OrderStatements ==
    ASSUME NEW o \in Orders
    PROVE  /\ Do("claim", o) \in Statements
           /\ Do("settle", o) \in Statements
           /\ Do("draft", o) \in Statements
           /\ Do("submitted", o) \in Statements
           /\ Do("rows", o) \in Statements
    BY DEF Do, Statements, Tables

-----------------------------------------------------------------------------
(* The hierarchy, and what a transaction may look like *)

Below(x, y) ==
    \/ x[1] = "order" /\ y[1] \in {"rows", "variant"}
    \/ x[1] = "rows" /\ y[1] = "rows" /\ x[2] < y[2]
    \/ x[1] = "rows" /\ y[1] = "variant"
    \/ x[1] = "user" /\ y[1] \in {"token", "session"}
    \/ x[1] = "token" /\ y[1] = "session"

ForVariant(s) == s.do \in {"variant", "line", "debit"}
VariantLock(s) == ForVariant(s) /\ s.of \in Variants
VariantLocks == {<<"variant", v, m>> : v \in Variants, m \in {"share", "nokey", "update"}}
OrderRow(r) == <<"order", r.order, "update">>
ReservationRow(r) == <<"rows", r.order, "update">>
Done(r, i, what) == \E j \in 1 .. Len(r.todo) : j < i /\ r.todo[j].do = what

\* A new order, an edited or a submitted draft: the order, then the variants.
Submitting(r) ==
    /\ r.order \in Orders
    /\ r.held \subseteq {OrderRow(r)} \cup VariantLocks
    /\ r.claimed = {}
    /\ \A i \in 1 .. Len(r.todo) :
          \/ VariantLock(r.todo[i])
          \/ r.todo[i] = Do("draft", r.order) /\ i = 1 /\ r.held = {}

\* Any other operation on one order: a claim is followed by its settlement, and
\* variants are locked under the order and its rows.
OwnStatements(r) ==
    \A i \in 1 .. Len(r.todo) :
        \/ r.todo[i] \in {Do("claim", r.order), Do("settle", r.order),
                          Do("submitted", r.order), Do("rows", r.order)}
        \/ VariantLock(r.todo[i])

Paired(r) ==
    /\ \A i \in 1 .. Len(r.todo) :
          r.todo[i].do = "claim" =>
              i + 1 \in 1 .. Len(r.todo) /\ r.todo[i + 1] = Do("settle", r.order)
    /\ \A i \in 1 .. Len(r.todo) :
          r.todo[i].do = "settle" /\ i # 1 => r.todo[i - 1].do = "claim"

Nested(r) ==
    \A i \in 1 .. Len(r.todo) :
        /\ r.todo[i].do = "rows" \/ ForVariant(r.todo[i]) =>
              OrderRow(r) \in r.held \/ Done(r, i, "submitted")
        /\ ForVariant(r.todo[i]) =>
              ReservationRow(r) \in r.held \/ Done(r, i, "rows")

Claiming(r) ==
    /\ r.claimed \subseteq {r.order}
    /\ r.order \in r.claimed =>
          /\ ReservationRow(r) \in r.held
          /\ r.todo # <<>> /\ Head(r.todo) = Do("settle", r.order)
    /\ ReservationRow(r) \in r.held /\ OrderRow(r) \notin r.held => r.order \in r.claimed
    /\ r.held \cap VariantLocks # {} => OrderRow(r) \in r.held /\ ReservationRow(r) \in r.held

Operating(r) ==
    /\ r.order \in Orders
    /\ r.held \subseteq {OrderRow(r), ReservationRow(r)} \cup VariantLocks
    /\ OwnStatements(r) /\ Paired(r) /\ Nested(r) /\ Claiming(r)

\* The job: it claims the rows of its batch first, in the order of their ids.
Sweeping(r) ==
    /\ \A i \in 1 .. Len(r.todo) :
          \/ VariantLock(r.todo[i])
          \/ r.todo[i].do \in {"claim", "settle"} /\ r.todo[i].of \in Orders
    /\ r.held \subseteq {<<"order", o, "update">> : o \in Orders} \cup {<<"rows", o, "update">> : o \in Orders} \cup VariantLocks
    /\ \A i, j \in 1 .. Len(r.todo) :
          i < j /\ r.todo[j].do = "claim" => r.todo[i].do = "claim" /\ r.todo[i].of < r.todo[j].of
    /\ \A i \in 1 .. Len(r.todo) : r.todo[i].do = "claim" =>
          \A x \in r.held : x[1] = "rows" /\ x[2] < r.todo[i].of

\* On an account: the user once, and no link after the session.
ForUser(s) == s.do \in {"user", "owner", "stamp"}
AccountLocks(u) ==
    {<<"user", u, m>> : m \in {"share", "nokey", "update"}}
        \cup {<<"session", u, "update">>, <<"token", u, "update">>}

OnAccount(r) ==
    \E u \in Users :
        /\ r.held \subseteq AccountLocks(u)
        /\ \A i \in 1 .. Len(r.todo) :
              r.todo[i].of = u /\ (ForUser(r.todo[i]) \/ r.todo[i].do \in {"session", "token"})
        /\ \A i \in 1 .. Len(r.todo) : ForUser(r.todo[i]) =>
              /\ \A x \in r.held : x[1] # "user"
              /\ \A j \in 1 .. Len(r.todo) : j < i => ~ForUser(r.todo[j])
        /\ \A i \in 1 .. Len(r.todo) : r.todo[i].do = "token" =>
              /\ \A x \in r.held : x[1] # "session"
              /\ \A j \in 1 .. Len(r.todo) : j < i => r.todo[j].do # "session"

Filling == {"open", "basket", "checkout", "submit"}
OnOneOrder == {"manual", "provider", "attempt", "cancel", "show"}
OnOneAccount == {"rotate", "reset", "recover", "verify", "mail", "profile"}

Good(r) ==
    /\ r.kind = "idle" => r = Idle
    /\ r.kind \in Filling => Submitting(r)
    /\ r.kind \in OnOneOrder => Operating(r)
    /\ r.kind = "sweep" => Sweeping(r)
    /\ r.kind \in OnOneAccount => OnAccount(r)

IInv == TypeOK /\ \A t \in Transactions : Good(tx[t])

-----------------------------------------------------------------------------
(* Whatever a transaction locks next is above all it holds *)

\* A statement of the transaction t, the row it is after, and what t holds.
LEMMA Climbs ==
    ASSUME TypeOK, NEW t \in Transactions, Good(tx[t]), Working(t), ~Inverted(t),
           Wanted(Statement(t)) \notin tx[t].held
    PROVE  \A x \in tx[t].held : Below(x, Wanted(Statement(t)))
<1> DEFINE r == tx[t]
<1> DEFINE s == r.todo[1]
<1>1. r \in Sessions /\ r.todo \in Seq(Statements) /\ r.todo # <<>> /\ r.kind # "idle"
    BY DEF TypeOK, Sessions, Working, Busy
<1>2. /\ Statement(t) = s /\ 1 \in 1 .. Len(r.todo) /\ Head(r.todo) = s
      /\ s \in Statements /\ Len(r.todo) \in Nat
    BY <1>1, Rest DEF Statement
<1>3. s.do # "settle"
    BY <1>2 DEF Inverted
<1>4. ForVariant(s) => Wanted(s)[1] = "variant" /\ r.held \cap VariantLocks = {}
    <2>1. ForVariant(s) => Tables[s.do] = "variant"
        BY DEF ForVariant, Tables
    <2>2. \A x \in VariantLocks : x[1] = "variant"
        BY DEF VariantLocks
    <2>3. QED
        BY <1>2, <2>1, <2>2 DEF Inverted, Wanted
<1>5. CASE r.kind \in Filling
    <2>1. CASE ForVariant(s)
        BY <1>2, <1>4, <1>5, <2>1 DEF Good, Submitting, OrderRow, Below, Wanted, Mode, Tables, VariantLock, ForVariant
    <2>2. CASE ~ForVariant(s)
        BY <1>2, <1>5, <2>2 DEF Good, Submitting, VariantLock, ForVariant
    <2>3. QED BY <2>1, <2>2
<1>6. CASE r.kind \in OnOneOrder
    <2>0. Operating(r)
        BY <1>6 DEF Good
    <2>1. CASE ForVariant(s)
        BY <1>2, <1>4, <2>0, <2>1 DEF Operating, OrderRow, ReservationRow, Below
    <2>2. CASE s = Do("claim", r.order) \/ s = Do("rows", r.order)
        <3>1. Wanted(s) = ReservationRow(r)
            BY <2>2 DEF Do, Wanted, Mode, Tables, ReservationRow
        <3>2. r.held \subseteq {OrderRow(r)}
            BY <1>2, <2>0, <3>1 DEF Operating, Claiming
        <3>3. QED
            BY <1>2, <3>1, <3>2 DEF Below, OrderRow, ReservationRow
    <2>3. CASE s = Do("submitted", r.order)
        <3>1. Wanted(s) = OrderRow(r)
            BY <2>3 DEF Do, Wanted, Mode, Tables, OrderRow
        <3>2. s # Do("settle", r.order)
            BY <2>3 DEF Do
        <3>3. r.held = {}
            BY <1>2, <2>0, <3>1, <3>2 DEF Operating, Claiming
        <3>4. QED
            BY <3>3
    <2>4. s # Do("settle", r.order)
        BY <1>3 DEF Do
    <2>5. QED
        BY <1>2, <2>0, <2>1, <2>2, <2>3, <2>4 DEF Operating, OwnStatements, VariantLock, ForVariant
<1>7. CASE r.kind = "sweep"
    <2>0. Sweeping(r)
        BY <1>7 DEF Good
    <2>1. CASE ForVariant(s)
        BY <1>2, <1>4, <2>0, <2>1 DEF Sweeping, Below
    <2>2. CASE s.do = "claim"
        BY <1>2, <2>0, <2>2 DEF Sweeping, Below, Wanted, Mode, Tables, VariantLock, ForVariant
    <2>3. QED
        BY <1>2, <1>3, <2>0, <2>1, <2>2 DEF Sweeping, VariantLock, ForVariant
<1>8. CASE r.kind \in OnOneAccount
    <2>1. PICK u \in Users :
             /\ r.held \subseteq AccountLocks(u)
             /\ s.of = u /\ (ForUser(s) \/ s.do \in {"session", "token"})
             /\ ForUser(s) => \A x \in r.held : x[1] # "user"
             /\ s.do = "token" => \A x \in r.held : x[1] # "session"
        BY <1>2, <1>8 DEF Good, OnAccount
    <2>2. CASE ForUser(s)
        <3>1. \A x \in r.held : x[1] \notin {"session", "token"}
            BY <1>2, <2>2 DEF Inverted, ForUser, Tables
        <3>2. r.held = {}
            BY <2>1, <2>2, <3>1 DEF AccountLocks
        <3>3. QED
            BY <3>2
    <2>3. CASE s.do = "session"
        <3>1. Wanted(s) = <<"session", u, "update">>
            BY <2>1, <2>3 DEF Wanted, Tables, Mode
        <3>2. QED
            BY <1>2, <2>1, <3>1 DEF AccountLocks, Below
    <2>4. CASE s.do = "token"
        <3>1. Wanted(s) = <<"token", u, "update">>
            BY <2>1, <2>4 DEF Wanted, Tables, Mode
        <3>2. QED
            BY <1>2, <2>1, <2>4, <3>1 DEF AccountLocks, Below
    <2>5. QED
        BY <2>1, <2>2, <2>3, <2>4
<1>10. QED
    BY <1>1, <1>5, <1>6, <1>7, <1>8 DEF Sessions, Kinds, OnOneOrder, Filling, OnOneAccount

\* Rows are locked by the id of their order.
LEMMA RowsOfOrders ==
    ASSUME TypeOK, NEW t \in Transactions, Good(tx[t]), Working(t),
           Statement(t).do \in {"claim", "rows"}
    PROVE  Statement(t).of \in Orders
<1> DEFINE r == tx[t]
<1>1. r \in Sessions /\ r.todo \in Seq(Statements) /\ r.todo # <<>> /\ r.kind # "idle"
    BY DEF TypeOK, Sessions, Working, Busy
<1>2. Statement(t) = r.todo[1] /\ 1 \in 1 .. Len(r.todo) /\ Head(r.todo) = r.todo[1]
    BY <1>1, Rest DEF Statement
<1>3. CASE r.kind \in Filling
    BY <1>2, <1>3 DEF Good, Submitting, Do, VariantLock, ForVariant
<1>4. CASE r.kind \in OnOneOrder
    BY <1>2, <1>4 DEF Good, Operating, OwnStatements, Do, VariantLock, ForVariant
<1>5. CASE r.kind = "sweep"
    BY <1>2, <1>5 DEF Good, Sweeping, VariantLock, ForVariant
<1>6. CASE r.kind \in OnOneAccount
    BY <1>2, <1>6 DEF Good, OnAccount, ForUser
<1>7. QED
    BY <1>1, <1>3, <1>4, <1>5, <1>6 DEF Sessions, Kinds, OnOneOrder, Filling, OnOneAccount

\* A circle has an inversion in it.
LEMMA Circles == IInv => CyclesAreInverted
<1> SUFFICES ASSUME IInv, NEW S \in SUBSET Transactions, Cycle(S),
                    \A t \in S : ~Inverted(t)
             PROVE  FALSE
    BY DEF CyclesAreInverted
<1> DEFINE Goal(t) == Wanted(Statement(t))
<1>1. \A t \in S : \E w \in S : Below(Goal(w), Goal(t))
    <2> SUFFICES ASSUME NEW t \in S PROVE \E w \in S : Below(Goal(w), Goal(t))
        OBVIOUS
    <2>1. PICK u \in S : WaitsFor(t, u)
        BY DEF Cycle
    <2>2. PICK w \in S : WaitsFor(w, t)
        BY DEF Cycle
    <2>3. PICK x \in tx[u].held : Clash(x, Goal(t))
        BY <2>1 DEF WaitsFor
    <2>4. Working(t) /\ Goal(t) \notin tx[t].held
        BY <2>1, <2>3 DEF WaitsFor, IInv, TypeOK
    <2>5. \A y \in tx[t].held : Below(y, Goal(t))
        BY <2>4, Climbs DEF IInv
    <2>6. PICK y \in tx[t].held : Clash(y, Goal(w))
        BY <2>2 DEF WaitsFor
    <2>7. y[1] = Goal(w)[1] /\ y[2] = Goal(w)[2]
        BY <2>6 DEF Clash
    <2>8. QED
        BY <2>5, <2>7 DEF Below
<1>2. \A t \in S : Statement(t) \in Statements
    <2> SUFFICES ASSUME NEW t \in S PROVE Statement(t) \in Statements
        OBVIOUS
    <2>1. tx[t].todo \in Seq(Statements) /\ tx[t].todo # <<>>
        BY DEF Cycle, WaitsFor, Working, IInv, TypeOK, Sessions
    <2>2. QED
        BY <2>1, Rest DEF Statement
<1>3. \A t \in S : Goal(t)[1] # "order" /\ Goal(t)[1] # "user"
    BY <1>1 DEF Below
<1>4. \A t \in S : Goal(t)[1] # "token" /\ Goal(t)[1] # "session"
    BY <1>1, <1>3 DEF Below
<1>5. \A t \in S : Goal(t)[1] = "rows" =>
          \E w \in S : Goal(w)[1] = "rows" /\ Goal(w)[2] < Goal(t)[2]
    BY <1>1, <1>3 DEF Below
<1>6. \A t \in S : Goal(t)[1] = "rows" => Goal(t)[2] \in Nat
    <2> SUFFICES ASSUME NEW t \in S, Goal(t)[1] = "rows" PROVE Goal(t)[2] \in Nat
        OBVIOUS
    <2>1. Statement(t).do \in {"claim", "rows"}
        BY <1>2 DEF Wanted, Mode, Tables, Statements
    <2>2. Working(t)
        BY DEF Cycle, WaitsFor
    <2>3. Statement(t).of \in Orders
        BY <2>1, <2>2, RowsOfOrders DEF IInv
    <2>4. QED
        BY <2>3, RowLocksAssumption DEF Wanted, Mode
<1>7. \A t \in S : Goal(t)[1] # "rows"
    <2> DEFINE T == {n \in Nat : \E t \in S : Goal(t)[1] = "rows" /\ Goal(t)[2] = n}
    <2>1. T = {}
        <3> SUFFICES ASSUME T # {} PROVE FALSE
            OBVIOUS
        <3>1. PICK n \in T : \A m \in T : ~(m < n)
            BY Least
        <3>2. QED
            BY <1>5, <1>6, <3>1
    <2>2. QED
        BY <1>6, <2>1
<1>8. QED
    BY <1>1, <1>3, <1>4, <1>7 DEF Below, Cycle

-----------------------------------------------------------------------------
(* Each statement leaves the transaction fit for the next *)

\* n is r with one statement fewer.
Advanced(r, n) ==
    /\ r \in Sessions /\ r.todo # <<>> /\ Good(r)
    /\ n \in Sessions /\ n.kind = r.kind /\ n.order = r.order /\ n.todo = Tail(r.todo)

LEMMA SkipGood ==
    ASSUME NEW r, NEW n, Advanced(r, n), n.held = r.held, n.claimed = r.claimed,
           \/ r.todo[1].do = "claim"
           \/ r.todo[1].do = "settle" /\ r.todo[1].of \notin r.claimed
    PROVE  Good(n)
<1>1. /\ r.todo \in Seq(Statements) /\ n.todo = Tail(r.todo)
      /\ Len(r.todo) \in Nat /\ Len(n.todo) = Len(r.todo) - 1 /\ Head(r.todo) = r.todo[1]
      /\ \A i \in 1 .. Len(n.todo) : i + 1 \in 1 .. Len(r.todo) /\ n.todo[i] = r.todo[i + 1]
      /\ 1 \in 1 .. Len(r.todo)
    BY Rest DEF Advanced, Sessions
<1>2. n.kind = r.kind /\ n.order = r.order /\ n.held = r.held /\ n.claimed = r.claimed /\ Good(r)
    BY DEF Advanced
<1>3. CASE r.kind = "idle"
    BY <1>3 DEF Advanced, Good, Idle
<1>4. CASE r.kind \in Filling
    BY <1>1, <1>2, <1>4 DEF Good, Submitting, Do, VariantLock, ForVariant
<1>5. CASE r.kind \in OnOneOrder
    <2>0. Operating(r)
        BY <1>2, <1>5 DEF Good
    <2>1. r.order \notin r.claimed
        BY <1>1, <2>0 DEF Operating, Claiming, OwnStatements, Do, VariantLock, ForVariant
    <2>2. OwnStatements(n)
        BY <1>1, <1>2, <2>0 DEF Operating, OwnStatements, VariantLock, ForVariant
    <2>3. Paired(n)
        BY <1>1, <1>2, <2>0 DEF Operating, Paired
    <2>4. Nested(n)
        <3> SUFFICES ASSUME NEW i \in 1 .. Len(n.todo)
                     PROVE  /\ n.todo[i].do = "rows" \/ ForVariant(n.todo[i]) =>
                                  OrderRow(n) \in n.held \/ Done(n, i, "submitted")
                            /\ ForVariant(n.todo[i]) =>
                                  ReservationRow(n) \in n.held \/ Done(n, i, "rows")
            BY DEF Nested
        <3>1. \A what \in {"submitted", "rows"} : Done(r, i + 1, what) => Done(n, i, what)
            BY <1>1 DEF Done
        <3>2. QED
            BY <1>1, <1>2, <2>0, <3>1 DEF Operating, Nested, OrderRow, ReservationRow
    <2>5. Claiming(n)
        BY <1>1, <1>2, <2>0, <2>1 DEF Operating, Claiming, OrderRow, ReservationRow
    <2>6. Operating(n)
        BY <1>2, <2>0, <2>2, <2>3, <2>4, <2>5 DEF Operating, OrderRow, ReservationRow
    <2>7. QED
        BY <1>2, <1>5, <2>6 DEF Good, OnOneOrder, Filling, OnOneAccount
<1>6. CASE r.kind = "sweep"
    <2>0. Sweeping(r)
        BY <1>2, <1>6 DEF Good
    <2>1. Sweeping(n)
        BY <1>1, <1>2, <2>0 DEF Sweeping, VariantLock, ForVariant
    <2>2. QED
        BY <1>2, <1>6, <2>1 DEF Good, OnOneOrder, Filling, OnOneAccount
<1>7. CASE r.kind \in OnOneAccount
    BY <1>1, <1>2, <1>7 DEF Good, OnAccount, ForUser
<1>8. QED
    BY <1>2, <1>3, <1>4, <1>5, <1>6, <1>7 DEF Advanced, Sessions, Kinds, OnOneOrder, Filling, OnOneAccount

LEMMA LockGood ==
    ASSUME NEW r, NEW n, Advanced(r, n), n.held = r.held \cup {Wanted(r.todo[1])},
           n.claimed = r.claimed, r.todo[1].do \notin {"claim", "settle"}
    PROVE  Good(n)
<1>1. /\ r.todo \in Seq(Statements) /\ n.todo = Tail(r.todo) /\ r.todo[1] \in Statements
      /\ Len(r.todo) \in Nat /\ Len(n.todo) = Len(r.todo) - 1 /\ Head(r.todo) = r.todo[1]
      /\ \A i \in 1 .. Len(n.todo) : i + 1 \in 1 .. Len(r.todo) /\ n.todo[i] = r.todo[i + 1]
      /\ 1 \in 1 .. Len(r.todo)
    BY Rest DEF Advanced, Sessions
<1>2. /\ n.kind = r.kind /\ n.order = r.order /\ n.claimed = r.claimed /\ Good(r)
      /\ n.held = r.held \cup {Wanted(r.todo[1])}
    BY DEF Advanced
<1>3. CASE r.kind = "idle"
    BY <1>3 DEF Advanced, Good, Idle
<1>4. CASE r.kind \in Filling
    <2>0. Submitting(r)
        BY <1>2, <1>4 DEF Good
    <2>1. Wanted(r.todo[1]) \in {OrderRow(r)} \cup VariantLocks
        BY <1>1, <2>0 DEF Submitting, VariantLock, ForVariant, VariantLocks, OrderRow, Wanted, Mode, Tables, Do
    <2>2. Submitting(n)
        BY <1>1, <1>2, <2>0, <2>1 DEF Submitting, OrderRow, VariantLock, ForVariant
    <2>3. QED
        BY <1>2, <1>4, <2>2 DEF Good, OnOneOrder, Filling, OnOneAccount
<1>5. CASE r.kind \in OnOneOrder
    <2>0. Operating(r) /\ r.order \in Orders
        BY <1>2, <1>5 DEF Good, Operating
    <2>1. \/ r.todo[1] = Do("submitted", r.order) /\ Wanted(r.todo[1]) = OrderRow(r)
          \/ r.todo[1] = Do("rows", r.order) /\ Wanted(r.todo[1]) = ReservationRow(r)
          \/ ForVariant(r.todo[1]) /\ Wanted(r.todo[1]) \in VariantLocks
        BY <1>1, <2>0 DEF Operating, OwnStatements, VariantLock, ForVariant, VariantLocks, OrderRow,
                          ReservationRow, Wanted, Mode, Tables, Do
    <2>2. OwnStatements(n)
        BY <1>1, <1>2, <2>0 DEF Operating, OwnStatements, VariantLock, ForVariant
    <2>3. Paired(n)
        BY <1>1, <1>2, <2>0 DEF Operating, Paired
    <2>4. Nested(n)
        <3> SUFFICES ASSUME NEW i \in 1 .. Len(n.todo)
                     PROVE  /\ n.todo[i].do = "rows" \/ ForVariant(n.todo[i]) =>
                                  OrderRow(n) \in n.held \/ Done(n, i, "submitted")
                            /\ ForVariant(n.todo[i]) =>
                                  ReservationRow(n) \in n.held \/ Done(n, i, "rows")
            BY DEF Nested
        <3>1. \A what : Done(r, i + 1, what) => r.todo[1].do = what \/ Done(n, i, what)
            BY <1>1 DEF Done
        <3>2. /\ r.todo[1].do = "submitted" => OrderRow(n) \in n.held
              /\ r.todo[1].do = "rows" => ReservationRow(n) \in n.held
            BY <1>2, <2>1 DEF OrderRow, ReservationRow, Do, ForVariant
        <3>3. QED
            BY <1>1, <1>2, <2>0, <3>1, <3>2 DEF Operating, Nested, OrderRow, ReservationRow
    <2>5. Claiming(n)
        <3>1. r.order \notin r.claimed
            BY <1>1, <2>0, <2>1 DEF Operating, Claiming, Do
        <3>2. /\ r.todo[1].do = "rows" \/ ForVariant(r.todo[1]) => OrderRow(r) \in r.held
              /\ ForVariant(r.todo[1]) => ReservationRow(r) \in r.held
            BY <1>1, <2>0 DEF Operating, Nested, Done
        <3>3. QED
            BY <1>1, <1>2, <2>0, <2>1, <3>1, <3>2
               DEF Operating, Claiming, OrderRow, ReservationRow, VariantLocks, Do
    <2>6. Operating(n)
        BY <1>2, <2>0, <2>1, <2>2, <2>3, <2>4, <2>5 DEF Operating, OrderRow, ReservationRow
    <2>7. QED
        BY <1>2, <1>5, <2>6 DEF Good, OnOneOrder, Filling, OnOneAccount
<1>6. CASE r.kind = "sweep"
    <2>0. Sweeping(r)
        BY <1>2, <1>6 DEF Good
    <2>1. ForVariant(r.todo[1]) /\ Wanted(r.todo[1]) \in VariantLocks
        BY <1>1, <2>0 DEF Sweeping, VariantLock, ForVariant, VariantLocks, Wanted, Mode, Tables
    <2>2. \A i \in 1 .. Len(r.todo) : r.todo[i].do # "claim"
        BY <1>1, <2>0, <2>1 DEF Sweeping, VariantLock, ForVariant
    <2>3. Sweeping(n)
        BY <1>1, <1>2, <2>0, <2>1, <2>2 DEF Sweeping, VariantLock, ForVariant
    <2>4. QED
        BY <1>2, <1>6, <2>3 DEF Good, OnOneOrder, Filling, OnOneAccount
<1>7. CASE r.kind \in OnOneAccount
    <2>1. PICK u \in Users :
             /\ r.held \subseteq AccountLocks(u)
             /\ \A i \in 1 .. Len(r.todo) :
                   r.todo[i].of = u /\ (ForUser(r.todo[i]) \/ r.todo[i].do \in {"session", "token"})
             /\ \A i \in 1 .. Len(r.todo) : ForUser(r.todo[i]) =>
                   /\ \A x \in r.held : x[1] # "user"
                   /\ \A j \in 1 .. Len(r.todo) : j < i => ~ForUser(r.todo[j])
             /\ \A i \in 1 .. Len(r.todo) : r.todo[i].do = "token" =>
                   /\ \A x \in r.held : x[1] # "session"
                   /\ \A j \in 1 .. Len(r.todo) : j < i => r.todo[j].do # "session"
        BY <1>2, <1>7 DEF Good, OnAccount
    <2> DEFINE x == Wanted(r.todo[1])
    <2>2. /\ x \in AccountLocks(u)
          /\ x[1] = "user" => ForUser(r.todo[1])
          /\ x[1] = "session" => r.todo[1].do = "session"
        BY <1>1, <2>1 DEF AccountLocks, ForUser, Wanted, Tables, Mode
    <2>3. n.held = r.held \cup {x}
        BY <1>2
    <2> HIDE DEF x
    <2>4. n.held \subseteq AccountLocks(u)
        BY <2>1, <2>2, <2>3
    <2>5. \A i \in 1 .. Len(n.todo) :
              n.todo[i].of = u /\ (ForUser(n.todo[i]) \/ n.todo[i].do \in {"session", "token"})
        BY <1>1, <2>1
    <2>6. \A i \in 1 .. Len(n.todo) :
              /\ ForUser(n.todo[i]) => ~ForUser(r.todo[1])
              /\ n.todo[i].do = "token" => r.todo[1].do # "session"
        <3>1. \A i \in 1 .. Len(n.todo) : i + 1 \in 1 .. Len(r.todo) /\ 1 < i + 1
            BY <1>1
        <3>2. QED
            BY <1>1, <2>1, <3>1
    <2>7. \A i \in 1 .. Len(n.todo) : ForUser(n.todo[i]) =>
              /\ \A y \in n.held : y[1] # "user"
              /\ \A j \in 1 .. Len(n.todo) : j < i => ~ForUser(n.todo[j])
        BY <1>1, <2>1, <2>2, <2>3, <2>6
    <2>8. \A i \in 1 .. Len(n.todo) : n.todo[i].do = "token" =>
              /\ \A y \in n.held : y[1] # "session"
              /\ \A j \in 1 .. Len(n.todo) : j < i => n.todo[j].do # "session"
        BY <1>1, <2>1, <2>2, <2>3, <2>6
    <2>9. OnAccount(n)
        BY <2>4, <2>5, <2>7, <2>8 DEF OnAccount
    <2>10. QED
        BY <1>2, <1>7, <2>9 DEF Good, OnOneOrder, Filling, OnOneAccount
<1>9. QED
    BY <1>2, <1>3, <1>4, <1>5, <1>6, <1>7 DEF Advanced, Sessions, Kinds, OnOneOrder, Filling, OnOneAccount

LEMMA ClaimGood ==
    ASSUME NEW r, NEW n, Advanced(r, n), n.held = r.held \cup {Wanted(r.todo[1])},
           n.claimed = r.claimed \cup {r.todo[1].of}, r.todo[1].do = "claim"
    PROVE  Good(n)
<1>1. /\ r.todo \in Seq(Statements) /\ n.todo = Tail(r.todo) /\ r.todo[1] \in Statements
      /\ Len(r.todo) \in Nat /\ Len(n.todo) = Len(r.todo) - 1 /\ Head(r.todo) = r.todo[1]
      /\ \A i \in 1 .. Len(n.todo) : i + 1 \in 1 .. Len(r.todo) /\ n.todo[i] = r.todo[i + 1]
      /\ 1 \in 1 .. Len(r.todo)
    BY Rest DEF Advanced, Sessions
<1>2. /\ n.kind = r.kind /\ n.order = r.order /\ n.claimed = r.claimed \cup {r.todo[1].of}
      /\ n.held = r.held \cup {Wanted(r.todo[1])} /\ Good(r)
    BY DEF Advanced
<1>3. r.kind \in OnOneOrder \cup {"sweep"}
    <2>1. r.kind # "idle"
        BY DEF Advanced, Good, Idle
    <2>2. r.kind \notin Filling
        BY <1>1, <1>2 DEF Good, Submitting, VariantLock, ForVariant, Do
    <2>3. CASE r.kind \in OnOneAccount
        BY <1>1, <1>2, <2>3 DEF Good, OnAccount, ForUser
    <2>4. QED
        BY <2>1, <2>2, <2>3 DEF Advanced, Sessions, Kinds, OnOneOrder, Filling, OnOneAccount
<1>4. CASE r.kind \in OnOneOrder
    <2>0. Operating(r) /\ r.order \in Orders
        BY <1>2, <1>4 DEF Good, Operating
    <2>1. r.todo[1] = Do("claim", r.order) /\ Wanted(r.todo[1]) = ReservationRow(r) /\ r.todo[1].of = r.order
        BY <1>1, <2>0 DEF Operating, OwnStatements, VariantLock, ForVariant, ReservationRow, Wanted, Mode, Tables, Do
    <2>2. OwnStatements(n)
        BY <1>1, <1>2, <2>0 DEF Operating, OwnStatements
    <2>3. Paired(n)
        BY SMTT(30), <1>1, <1>2, <2>0 DEF Operating, Paired
    <2>4. Nested(n)
        <3> SUFFICES ASSUME NEW i \in 1 .. Len(n.todo)
                     PROVE  /\ n.todo[i].do = "rows" \/ ForVariant(n.todo[i]) =>
                                  OrderRow(n) \in n.held \/ Done(n, i, "submitted")
                            /\ ForVariant(n.todo[i]) =>
                                  ReservationRow(n) \in n.held \/ Done(n, i, "rows")
            BY DEF Nested
        <3>1. \A what \in {"submitted", "rows"} : Done(r, i + 1, what) => Done(n, i, what)
            BY <1>1 DEF Done
        <3>2. QED
            BY <1>1, <1>2, <2>0, <3>1 DEF Operating, Nested, OrderRow, ReservationRow
    <2>5. Claiming(n)
        <3>1. n.todo # <<>> /\ Head(n.todo) = Do("settle", r.order)
            <4>1. 2 \in 1 .. Len(r.todo) /\ r.todo[2] = Do("settle", r.order)
                BY <1>1, <2>0 DEF Operating, Paired
            <4>2. n.todo \in Seq(Statements) /\ 1 \in 1 .. Len(n.todo) /\ n.todo[1] = r.todo[2]
                BY <1>1, <4>1 DEF Advanced, Sessions
            <4>3. QED
                BY <4>1, <4>2
        <3>2. ReservationRow(r) # OrderRow(r) /\ ReservationRow(r) \notin VariantLocks
            BY DEF OrderRow, ReservationRow, VariantLocks
        <3>3. QED
            BY <1>2, <2>0, <2>1, <3>1, <3>2 DEF Operating, Claiming, OrderRow, ReservationRow
    <2>6. Operating(n)
        BY <1>2, <2>0, <2>1, <2>2, <2>3, <2>4, <2>5 DEF Operating, OrderRow, ReservationRow
    <2>7. QED
        BY <1>2, <1>4, <2>6 DEF Good, OnOneOrder, Filling, OnOneAccount
<1>5. CASE r.kind = "sweep"
    <2>0. Sweeping(r)
        BY <1>2, <1>5 DEF Good
    <2>1. r.todo[1].of \in Orders /\ Wanted(r.todo[1]) = <<"rows", r.todo[1].of, "update">>
        BY <1>1, <2>0 DEF Sweeping, VariantLock, ForVariant, Wanted, Mode, Tables
    <2>2. Sweeping(n)
        <3>1. \A i \in 1 .. Len(n.todo) : n.todo[i].do = "claim" =>
                  n.todo[i].of \in Orders /\ r.todo[1].of < n.todo[i].of
            BY <1>1, <2>0 DEF Sweeping, VariantLock, ForVariant
        <3>2. \A i \in 1 .. Len(n.todo) : n.todo[i].do = "claim" =>
                  \A x \in n.held : x[1] = "rows" /\ x[2] < n.todo[i].of
            BY <1>1, <1>2, <2>0, <2>1, <3>1 DEF Sweeping
        <3>3. \A i, j \in 1 .. Len(n.todo) : i < j /\ n.todo[j].do = "claim" =>
                  n.todo[i].do = "claim" /\ n.todo[i].of < n.todo[j].of
            <4> SUFFICES ASSUME NEW i \in 1 .. Len(n.todo), NEW j \in 1 .. Len(n.todo), i < j
                         PROVE  n.todo[j].do = "claim" =>
                                    n.todo[i].do = "claim" /\ n.todo[i].of < n.todo[j].of
                OBVIOUS
            <4>1. i + 1 \in 1 .. Len(r.todo) /\ j + 1 \in 1 .. Len(r.todo) /\ i + 1 < j + 1
                BY <1>1
            <4>2. QED
                BY <1>1, <2>0, <4>1 DEF Sweeping
        <3>4. \A i \in 1 .. Len(n.todo) :
                  \/ VariantLock(n.todo[i])
                  \/ n.todo[i].do \in {"claim", "settle"} /\ n.todo[i].of \in Orders
            <4> SUFFICES ASSUME NEW i \in 1 .. Len(n.todo)
                         PROVE  \/ VariantLock(n.todo[i])
                                \/ n.todo[i].do \in {"claim", "settle"} /\ n.todo[i].of \in Orders
                OBVIOUS
            <4>1. i + 1 \in 1 .. Len(r.todo) /\ n.todo[i] = r.todo[i + 1]
                BY <1>1
            <4>2. \/ VariantLock(r.todo[i + 1])
                  \/ r.todo[i + 1].do \in {"claim", "settle"} /\ r.todo[i + 1].of \in Orders
                BY <2>0, <4>1 DEF Sweeping
            <4>3. QED
                BY <4>1, <4>2
        <3>5. n.held \subseteq {<<"order", o, "update">> : o \in Orders} \cup {<<"rows", o, "update">> : o \in Orders} \cup VariantLocks
            BY <1>2, <2>0, <2>1 DEF Sweeping
        <3>6. QED
            BY <3>2, <3>3, <3>4, <3>5 DEF Sweeping
    <2>3. QED
        BY <1>2, <1>5, <2>2 DEF Good, OnOneOrder, Filling, OnOneAccount
<1>6. QED
    BY <1>3, <1>4, <1>5

\* The variants of the order that is settled come before everything else.
LEMMA SettleGood ==
    ASSUME NEW r, NEW n, r \in Sessions, r.todo # <<>>, Good(r), n \in Sessions,
           n.kind = r.kind, n.order = r.order,
           r.todo[1].do = "settle", r.todo[1].of \in r.claimed,
           NEW f \in Seq(Statements), \A i \in 1 .. Len(f) : VariantLock(f[i]),
           n.todo = f \o Tail(r.todo), n.held = r.held \cup {Wanted(r.todo[1])},
           n.claimed = r.claimed \ {r.todo[1].of}
    PROVE  Good(n)
<1> DEFINE s == Tail(r.todo)
<1>1. /\ r.todo \in Seq(Statements) /\ s \in Seq(Statements) /\ r.todo[1] \in Statements
      /\ Len(r.todo) \in Nat /\ Len(s) = Len(r.todo) - 1 /\ Head(r.todo) = r.todo[1]
      /\ \A i \in 1 .. Len(s) : i + 1 \in 1 .. Len(r.todo) /\ s[i] = r.todo[i + 1]
      /\ 1 \in 1 .. Len(r.todo)
    BY Rest DEF Sessions
<1>2. /\ Len(f) \in Nat /\ Len(n.todo) = Len(f) + Len(s)
      /\ \A i \in 1 .. Len(f) : n.todo[i] = f[i]
      /\ \A i \in 1 .. Len(s) : Len(f) + i \in 1 .. Len(n.todo) /\ n.todo[Len(f) + i] = s[i]
      /\ \A i \in 1 .. Len(n.todo) : i \in 1 .. Len(f) \/ i - Len(f) \in 1 .. Len(s)
    BY <1>1, Prefixed
<1>3. \A i \in 1 .. Len(n.todo) :
          \/ i \in 1 .. Len(f) /\ VariantLock(n.todo[i])
          \/ \E j \in 1 .. Len(s) : i = Len(f) + j /\ n.todo[i] = r.todo[j + 1]
    <2> SUFFICES ASSUME NEW i \in 1 .. Len(n.todo), i \notin 1 .. Len(f)
                 PROVE  \E j \in 1 .. Len(s) : i = Len(f) + j /\ n.todo[i] = r.todo[j + 1]
        BY <1>2
    <2> DEFINE j == i - Len(f)
    <2>1. j \in 1 .. Len(s) /\ i = Len(f) + j
        BY <1>2
    <2>2. n.todo[i] = s[j] /\ s[j] = r.todo[j + 1]
        BY <1>1, <1>2, <2>1
    <2>3. QED
        BY <2>1, <2>2
<1> HIDE DEF s
<1>4. r.kind \in OnOneOrder \cup {"sweep"}
    <2>1. r.kind # "idle"
        BY DEF Good, Idle
    <2>2. r.kind \notin Filling
        BY <1>1 DEF Good, Submitting, VariantLock, ForVariant, Do
    <2>3. CASE r.kind \in OnOneAccount
        BY <1>1, <2>3 DEF Good, OnAccount, ForUser
    <2>4. QED
        BY <2>1, <2>2, <2>3 DEF Sessions, Kinds, OnOneOrder, Filling, OnOneAccount
<1>5. CASE r.kind \in OnOneOrder
    <2>0. Operating(r) /\ r.order \in Orders
        BY <1>5 DEF Good, Operating
    <2>1. r.todo[1] = Do("settle", r.order) /\ Wanted(r.todo[1]) = OrderRow(r) /\ r.todo[1].of = r.order
        <3>1. /\ Do("claim", r.order).do = "claim" /\ Do("submitted", r.order).do = "submitted"
              /\ Do("rows", r.order).do = "rows"
            BY DEF Do
        <3>2. ~VariantLock(r.todo[1])
            BY DEF VariantLock, ForVariant
        <3>3. r.todo[1] = Do("settle", r.order)
            <4>1. r.todo[1] \in {Do("claim", r.order), Do("settle", r.order),
                                Do("submitted", r.order), Do("rows", r.order)}
                BY <1>1, <2>0, <3>2 DEF Operating, OwnStatements
            <4>2. QED
                BY <3>1, <4>1
        <3>4. QED
            BY <3>3 DEF OrderRow, Wanted, Mode, Tables, Do
    <2>2. OrderRow(n) \in n.held /\ ReservationRow(n) \in n.held /\ n.claimed = {}
        BY <2>0, <2>1 DEF Operating, Claiming, OrderRow, ReservationRow
    <2>3. OwnStatements(n)
        BY <1>1, <1>3, <2>0 DEF Operating, OwnStatements
    <2>4. Paired(n)
        <3>1. \A i \in 1 .. Len(n.todo) : n.todo[i].do = "claim" =>
                  i + 1 \in 1 .. Len(n.todo) /\ n.todo[i + 1] = Do("settle", n.order)
            <4> SUFFICES ASSUME NEW i \in 1 .. Len(n.todo), n.todo[i].do = "claim"
                         PROVE  i + 1 \in 1 .. Len(n.todo) /\ n.todo[i + 1] = Do("settle", n.order)
                OBVIOUS
            <4>1. PICK j \in 1 .. Len(s) : i = Len(f) + j /\ n.todo[i] = r.todo[j + 1]
                BY <1>3 DEF VariantLock, ForVariant
            <4>2. j + 2 \in 1 .. Len(r.todo) /\ r.todo[j + 2] = Do("settle", r.order)
                BY <1>1, <2>0, <4>1 DEF Operating, Paired
            <4>3. j + 1 \in 1 .. Len(s) /\ (j + 1) + 1 = j + 2
                BY SMTT(30), <1>1, <4>2
            <4>4. s[j + 1] = r.todo[j + 2]
                BY <1>1, <4>3
            <4>5. n.todo[Len(f) + (j + 1)] = s[j + 1] /\ Len(f) + (j + 1) \in 1 .. Len(n.todo)
                BY <1>2, <4>3
            <4>6. Len(f) + (j + 1) = i + 1
                BY <1>2, <4>1
            <4>7. QED
                BY <4>2, <4>4, <4>5, <4>6
        <3>2. \A i \in 1 .. Len(n.todo) :
                  n.todo[i].do = "settle" /\ i # 1 => n.todo[i - 1].do = "claim"
            <4> SUFFICES ASSUME NEW i \in 1 .. Len(n.todo), n.todo[i].do = "settle"
                         PROVE  n.todo[i - 1].do = "claim"
                OBVIOUS
            <4>1. PICK j \in 1 .. Len(s) : i = Len(f) + j /\ n.todo[i] = r.todo[j + 1]
                BY <1>3 DEF VariantLock, ForVariant
            <4>2. j + 1 \in 1 .. Len(r.todo) /\ j + 1 # 1
                BY <1>1
            <4>3. r.todo[j].do = "claim" /\ r.todo[1].do = "settle"
                BY <2>0, <4>1, <4>2 DEF Operating, Paired
            <4>4. j # 1 /\ j - 1 \in 1 .. Len(s) /\ (j - 1) + 1 = j
                BY <1>1, <4>3
            <4>5. s[j - 1] = r.todo[j]
                BY <1>1, <4>4
            <4>6. n.todo[Len(f) + (j - 1)] = s[j - 1]
                BY <1>2, <4>4
            <4>7. Len(f) + (j - 1) = i - 1
                BY <1>2, <4>1
            <4>8. QED
                BY <4>3, <4>5, <4>6, <4>7
        <3>3. QED
            BY <3>1, <3>2 DEF Paired
    <2>5. Nested(n)
        BY <2>2 DEF Nested
    <2>6. Claiming(n)
        BY <2>2 DEF Claiming
    <2>7. Operating(n)
        BY <2>0, <2>1, <2>3, <2>4, <2>5, <2>6 DEF Operating, OrderRow, ReservationRow
    <2>8. QED
        BY <1>5, <2>7 DEF Good, OnOneOrder, Filling, OnOneAccount
<1>6. CASE r.kind = "sweep"
    <2>0. Sweeping(r)
        BY <1>6 DEF Good
    <2>1. r.todo[1].of \in Orders /\ Wanted(r.todo[1]) = <<"order", r.todo[1].of, "update">>
        BY <1>1, <2>0 DEF Sweeping, VariantLock, ForVariant, Wanted, Mode, Tables
    <2>2. \A i \in 1 .. Len(r.todo) : r.todo[i].do # "claim"
        <3> SUFFICES ASSUME NEW i \in 1 .. Len(r.todo), r.todo[i].do = "claim" PROVE FALSE
            OBVIOUS
        <3>1. 1 \in 1 .. Len(r.todo) /\ 1 < i
            BY <1>1
        <3>2. QED
            BY <2>0, <3>1 DEF Sweeping
    <2>3. \A i \in 1 .. Len(n.todo) : n.todo[i].do # "claim"
        <3> SUFFICES ASSUME NEW i \in 1 .. Len(n.todo), n.todo[i].do = "claim" PROVE FALSE
            OBVIOUS
        <3>1. PICK j \in 1 .. Len(s) : n.todo[i] = r.todo[j + 1]
            BY <1>3 DEF VariantLock, ForVariant
        <3>2. j + 1 \in 1 .. Len(r.todo)
            BY <1>1
        <3>3. QED
            BY <2>2, <3>1, <3>2
    <2>4. \A i \in 1 .. Len(n.todo) :
              \/ VariantLock(n.todo[i])
              \/ n.todo[i].do \in {"claim", "settle"} /\ n.todo[i].of \in Orders
        <3> SUFFICES ASSUME NEW i \in 1 .. Len(n.todo), ~VariantLock(n.todo[i])
                     PROVE  n.todo[i].do \in {"claim", "settle"} /\ n.todo[i].of \in Orders
            OBVIOUS
        <3>1. PICK j \in 1 .. Len(s) : n.todo[i] = r.todo[j + 1]
            BY <1>3
        <3>2. j + 1 \in 1 .. Len(r.todo)
            BY <1>1
        <3>3. QED
            BY <2>0, <3>1, <3>2 DEF Sweeping
    <2>5. Sweeping(n)
        <3>1. n.held \subseteq {<<"order", o, "update">> : o \in Orders} \cup {<<"rows", o, "update">> : o \in Orders} \cup VariantLocks
            BY <2>0, <2>1 DEF Sweeping
        <3>2. QED
            BY <2>3, <2>4, <3>1 DEF Sweeping
    <2>6. QED
        BY <1>6, <2>5 DEF Good, OnOneOrder, Filling, OnOneAccount
<1>7. QED
    BY <1>4, <1>5, <1>6

-----------------------------------------------------------------------------
(* Every operation begins with statements that fit *)

Started(kind, o, todo) == [Idle EXCEPT !.kind = kind, !.order = o, !.todo = todo]

LEMMA Fresh ==
    ASSUME NEW kind \in Kinds, NEW o \in Orders \cup {0}, NEW todo \in Seq(Statements),
           NEW r, r = Started(kind, o, todo)
    PROVE  /\ r \in Sessions /\ r.kind = kind /\ r.order = o /\ r.todo = todo
           /\ r.held = {} /\ r.claimed = {}
    BY DEF Started, Idle, Sessions

\* Statements on one order, then locks on variants.
LEMMA OperationGood ==
    ASSUME NEW o \in Orders, NEW kind \in OnOneOrder,
           NEW p \in Seq(Statements), NEW v \in Seq(Statements),
           \A i \in 1 .. Len(v) : VariantLock(v[i]),
           \A i \in 1 .. Len(p) :
              p[i] \in {Do("claim", o), Do("settle", o), Do("submitted", o), Do("rows", o)},
           \A i \in 1 .. Len(p) : p[i].do = "claim" =>
              i + 1 \in 1 .. Len(p) /\ p[i + 1] = Do("settle", o),
           \A i \in 1 .. Len(p) : p[i].do = "settle" =>
              i - 1 \in 1 .. Len(p) /\ p[i - 1].do = "claim",
           \A i \in 1 .. Len(p) : p[i].do = "rows" =>
              \E j \in 1 .. Len(p) : j < i /\ p[j].do = "submitted",
           Len(v) # 0 => \A what \in {"submitted", "rows"} :
              \E j \in 1 .. Len(p) : p[j].do = what
    PROVE  Started(kind, o, p \o v) \in Sessions /\ Good(Started(kind, o, p \o v))
<1> DEFINE r == Started(kind, o, p \o v)
<1>1. /\ r \in Sessions /\ r.kind = kind /\ r.order = o /\ r.todo = p \o v
      /\ r.held = {} /\ r.claimed = {}
    <2>1. kind \in Kinds /\ p \o v \in Seq(Statements) /\ o \in Orders \cup {0}
        BY Prefixed DEF OnOneOrder, Kinds
    <2>2. r = Started(kind, o, p \o v)
        OBVIOUS
    <2> HIDE DEF r
    <2> DEFINE q == p \o v
    <2>3. q \in Seq(Statements) /\ r = Started(kind, o, q)
        BY <2>1, <2>2
    <2> HIDE DEF q
    <2>4. /\ r \in Sessions /\ r.kind = kind /\ r.order = o /\ r.todo = q
          /\ r.held = {} /\ r.claimed = {}
        BY <2>1, <2>3, Fresh
    <2>5. QED
        BY <2>4 DEF q
<1> HIDE DEF r
<1>2. /\ Len(p) \in Nat /\ Len(v) \in Nat /\ Len(r.todo) = Len(p) + Len(v)
      /\ \A i \in 1 .. Len(p) : i \in 1 .. Len(r.todo) /\ r.todo[i] = p[i]
      /\ \A i \in 1 .. Len(r.todo) : i \in 1 .. Len(p) \/ i - Len(p) \in 1 .. Len(v)
    BY <1>1, Prefixed
<1>3. \A i \in 1 .. Len(r.todo) : i \notin 1 .. Len(p) => VariantLock(r.todo[i])
    <2> SUFFICES ASSUME NEW i \in 1 .. Len(r.todo), i \notin 1 .. Len(p)
                 PROVE  VariantLock(r.todo[i])
        OBVIOUS
    <2> DEFINE j == i - Len(p)
    <2>1. j \in 1 .. Len(v) /\ Len(p) + j = i
        BY <1>2
    <2>2. (p \o v)[Len(p) + j] = v[j]
        BY <2>1, Prefixed
    <2>3. QED
        BY <1>1, <2>1, <2>2
<1>4. OwnStatements(r)
    BY <1>1, <1>2, <1>3 DEF OwnStatements
<1>5. Paired(r)
    <2>1. \A i \in 1 .. Len(r.todo) : r.todo[i].do \in {"claim", "settle"} => i \in 1 .. Len(p)
        BY <1>3 DEF VariantLock, ForVariant
    <2>2. QED
        BY <1>1, <1>2, <2>1 DEF Paired
<1>6. Nested(r)
    <2> SUFFICES ASSUME NEW i \in 1 .. Len(r.todo)
                 PROVE  /\ r.todo[i].do = "rows" \/ ForVariant(r.todo[i]) => Done(r, i, "submitted")
                        /\ ForVariant(r.todo[i]) => Done(r, i, "rows")
        BY DEF Nested
    <2>1. CASE i \in 1 .. Len(p)
        <3>1. r.todo[i] = p[i] /\ ~ForVariant(p[i])
            BY <1>2, <2>1 DEF Do, ForVariant
        <3>2. p[i].do = "rows" => Done(r, i, "submitted")
            <4> SUFFICES ASSUME p[i].do = "rows"
                         PROVE  \E j \in 1 .. Len(r.todo) : j < i /\ r.todo[j].do = "submitted"
                BY DEF Done
            <4>1. PICK j \in 1 .. Len(p) : j < i /\ p[j].do = "submitted"
                BY <2>1
            <4>2. j \in 1 .. Len(r.todo) /\ r.todo[j] = p[j]
                BY <1>2
            <4>3. QED
                BY <4>1, <4>2
        <3>3. QED
            BY <3>1, <3>2
    <2>2. CASE i \notin 1 .. Len(p)
        <3>1. Len(v) # 0 /\ \A j \in 1 .. Len(p) : j < i
            BY <1>2, <2>2
        <3>2. Done(r, i, "submitted") /\ Done(r, i, "rows")
            BY <1>2, <3>1 DEF Done
        <3>3. QED
            BY <3>2
    <2>3. QED
        BY <2>1, <2>2
<1>7. Operating(r)
    BY <1>1, <1>4, <1>5, <1>6 DEF Operating, Claiming
<1>8. Good(r)
    BY <1>1, <1>7 DEF Good, OnOneOrder, Filling, OnOneAccount
<1>9. QED
    BY <1>1, <1>8 DEF r

LEMMA VariantsLast ==
    ASSUME NEW o \in Orders, NEW what \in {"variant", "line", "debit"}
    PROVE  /\ ForEach(what, o) \in Seq(Statements)
           /\ \A i \in 1 .. Len(ForEach(what, o)) : VariantLock(ForEach(what, o)[i])
<1>1. Len(Lines[o]) \in Nat
    BY RowLocksAssumption
<1> DEFINE n == Len(Lines[o])
<1> DEFINE f == ForVariants(what, o, n)
<1>2. /\ f \in Seq(Statements) /\ Len(f) = n
      /\ \A i \in 1 .. n : f[i].do = what /\ f[i].of \in Variants
    <2>1. \A m \in 0 .. Len(Lines[o]) :
             /\ ForVariants(what, o, m) \in Seq(Statements) /\ Len(ForVariants(what, o, m)) = m
             /\ \A i \in 1 .. m : /\ ForVariants(what, o, m)[i].do = what
                                  /\ ForVariants(what, o, m)[i].of \in Variants
        BY VariantStatements
    <2>2. n \in 0 .. Len(Lines[o])
        BY <1>1
    <2>3. QED
        BY <2>1, <2>2
<1>3. ForEach(what, o) = f
    BY DEF ForEach
<1> HIDE DEF f, n
<1>4. QED
    BY <1>2, <1>3 DEF VariantLock, ForVariant

\* Perhaps a draft, then locks on variants.
LEMMA FillingGood ==
    ASSUME NEW o \in Orders, NEW kind \in Filling, NEW todo \in Seq(Statements),
           \A i \in 1 .. Len(todo) : VariantLock(todo[i]) \/ (todo[i] = Do("draft", o) /\ i = 1)
    PROVE  Started(kind, o, todo) \in Sessions /\ Good(Started(kind, o, todo))
<1> DEFINE r == Started(kind, o, todo)
<1>1. /\ r \in Sessions /\ r.kind = kind /\ r.order = o /\ r.todo = todo
      /\ r.held = {} /\ r.claimed = {}
    <2>1. kind \in Kinds /\ o \in Orders \cup {0} /\ r = Started(kind, o, todo)
        BY DEF Kinds, Filling
    <2> HIDE DEF r
    <2>2. QED
        BY <2>1, Fresh
<1> HIDE DEF r
<1>2. Submitting(r)
    BY <1>1 DEF Submitting
<1>3. Good(r)
    BY <1>1, <1>2 DEF Good, OnOneOrder, Filling, OnOneAccount
<1>4. QED
    BY <1>1, <1>3 DEF r

LEMMA BasketsGood ==
    ASSUME NEW o \in Orders
    PROVE  /\ Started("open", o, Opening(o)) \in Sessions
           /\ Good(Started("open", o, Opening(o)))
           /\ Started("checkout", o, Checkout(o)) \in Sessions
           /\ Good(Started("checkout", o, Checkout(o)))
           /\ Started("basket", o, Basket(o)) \in Sessions
           /\ Good(Started("basket", o, Basket(o)))
           /\ Started("submit", o, Submission(o)) \in Sessions
           /\ Good(Started("submit", o, Submission(o)))
<1> DEFINE p == <<Do("draft", o)>>
<1> DEFINE b == ForEach("line", o)
<1> DEFINE v == ForEach("variant", o)
<1> DEFINE Fit(todo) == \A i \in 1 .. Len(todo) : VariantLock(todo[i]) \/ (todo[i] = Do("draft", o) /\ i = 1)
<1>1. p \in Seq(Statements) /\ Len(p) = 1 /\ p[1] = Do("draft", o)
    BY OrderStatements
<1>2. /\ b \in Seq(Statements) /\ \A i \in 1 .. Len(b) : VariantLock(b[i])
      /\ v \in Seq(Statements) /\ \A i \in 1 .. Len(v) : VariantLock(v[i])
    BY VariantsLast
<1>3. /\ Opening(o) = b /\ Checkout(o) = b \o v
      /\ Basket(o) = p \o b /\ Submission(o) = p \o v
    BY DEF Opening, Checkout, Basket, Submission
<1>4. {"open", "checkout", "basket", "submit"} \subseteq Filling
    BY DEF Filling
<1> HIDE DEF p, b, v
<1>5. ASSUME NEW f \in Seq(Statements), NEW q \in Seq(Statements), Fit(f),
             \A i \in 1 .. Len(q) : VariantLock(q[i])
      PROVE  Fit(f \o q)
    <2> SUFFICES ASSUME NEW i \in 1 .. Len(f \o q)
                 PROVE  VariantLock((f \o q)[i]) \/ ((f \o q)[i] = Do("draft", o) /\ i = 1)
        OBVIOUS
    <2>1. CASE i \in 1 .. Len(f)
        BY <1>5, <2>1, Prefixed
    <2>2. CASE i \notin 1 .. Len(f)
        <3> DEFINE j == i - Len(f)
        <3>1. j \in 1 .. Len(q) /\ Len(f) + j = i
            BY <2>2, Prefixed
        <3>2. (f \o q)[Len(f) + j] = q[j]
            BY <3>1, Prefixed
        <3>3. QED
            BY <1>5, <3>1, <3>2
    <2>3. QED
        BY <2>1, <2>2
<1>6. Fit(p) /\ Fit(b)
    BY <1>1, <1>2
<1>7. Fit(b \o v) /\ Fit(p \o b) /\ Fit(p \o v)
    BY <1>1, <1>2, <1>5, <1>6
<1>8. b \o v \in Seq(Statements) /\ p \o b \in Seq(Statements) /\ p \o v \in Seq(Statements)
    BY <1>1, <1>2, Prefixed
<1> HIDE DEF Fit
<1>9. \A kind \in Filling : \A todo \in {b, b \o v, p \o b, p \o v} :
          Started(kind, o, todo) \in Sessions /\ Good(Started(kind, o, todo))
    <2> SUFFICES ASSUME NEW kind \in Filling, NEW todo \in {b, b \o v, p \o b, p \o v}
                 PROVE  Started(kind, o, todo) \in Sessions /\ Good(Started(kind, o, todo))
        OBVIOUS
    <2>1. todo \in Seq(Statements) /\ Fit(todo)
        BY <1>2, <1>6, <1>7, <1>8
    <2>2. QED
        BY <2>1, FillingGood DEF Fit
<1>10. QED
    BY <1>3, <1>4, <1>9

\* The operations on one order.
LEMMA OrderOperationsGood ==
    ASSUME NEW o \in Orders
    PROVE  \A kind \in OnOneOrder :
              \A todo \in {Expiry(o), NewAttempt(o), Cancellation(o), ByHand(o), ByProvider(o)} :
                 Started(kind, o, todo) \in Sessions /\ Good(Started(kind, o, todo))
<1> DEFINE c == Do("claim", o)
<1> DEFINE s == Do("settle", o)
<1> DEFINE k == Do("submitted", o)
<1> DEFINE w == Do("rows", o)
<1> DEFINE v == ForEach("debit", o)
<1>1. c \in Statements /\ s \in Statements /\ k \in Statements /\ w \in Statements
    BY OrderStatements
<1>2. /\ c.do = "claim" /\ s.do = "settle" /\ k.do = "submitted" /\ w.do = "rows"
    BY DEF Do
<1>3. v \in Seq(Statements) /\ \A i \in 1 .. Len(v) : VariantLock(v[i])
    BY VariantsLast
<1>4. /\ Expiry(o) = <<c, s>>
      /\ NewAttempt(o) = <<c, s>> \o <<k>> \o <<c, s>> \o <<k>>
      /\ Cancellation(o) = <<c, s>> \o <<k>> \o <<c, s>> \o <<w>>
      /\ ByHand(o) = <<c, s>> \o <<k>> \o <<c, s>> \o <<k>> \o <<w>> \o v
      /\ ByProvider(o) = <<c, s>> \o <<c, s>> \o <<k>> \o <<w>> \o v
    <2>1. Expiry(o) = <<c, s>> /\ Check(o) = <<k>>
        BY DEF Expiry, Check
    <2> HIDE DEF c, s, k, w, v
    <2>2. QED
        BY <2>1 DEF NewAttempt, Cancellation, ByHand, ByProvider, w, v
<1> HIDE DEF c, s, k, w, v
<1> DEFINE Own == {c, s, k, w}
<1> DEFINE Fit(p) ==
       /\ p \in Seq(Statements)
       /\ \A i \in 1 .. Len(p) : p[i] \in Own
       /\ \A i \in 1 .. Len(p) : p[i].do = "claim" => i + 1 \in 1 .. Len(p) /\ p[i + 1] = s
       /\ \A i \in 1 .. Len(p) : p[i].do = "settle" => i - 1 \in 1 .. Len(p) /\ p[i - 1].do = "claim"
       /\ \A i \in 1 .. Len(p) : p[i].do = "rows" => \E j \in 1 .. Len(p) : j < i /\ p[j].do = "submitted"
<1> DEFINE Both(p) == \A what \in {"submitted", "rows"} : \E j \in 1 .. Len(p) : p[j].do = what
<1>5. ASSUME NEW p, Fit(p), NEW kind \in OnOneOrder
      PROVE  Started(kind, o, p) \in Sessions /\ Good(Started(kind, o, p))
    <2> DEFINE e == <<>>
    <2>1. e \in Seq(Statements) /\ Len(e) = 0 /\ p \o e = p
        BY <1>5
    <2> HIDE DEF e
    <2>2. \A i \in 1 .. Len(e) : VariantLock(e[i])
        BY <2>1
    <2>3. Started(kind, o, p \o e) \in Sessions /\ Good(Started(kind, o, p \o e))
        BY <1>5, <2>1, <2>2, OperationGood DEF c, s, k, w
    <2>4. QED
        BY <2>1, <2>3
<1>6. ASSUME NEW p, Fit(p), Both(p), NEW kind \in OnOneOrder
      PROVE  Started(kind, o, p \o v) \in Sessions /\ Good(Started(kind, o, p \o v))
    BY <1>3, <1>6, OperationGood DEF c, s, k, w
<1>7. Fit(<<c, s>>)
    BY <1>1, <1>2
<1>8. Fit(<<c, s>> \o <<k>> \o <<c, s>> \o <<k>>)
    BY <1>1, <1>2
<1>9. Fit(<<c, s>> \o <<k>> \o <<c, s>> \o <<w>>)
    <2> DEFINE q == <<c, s>> \o <<k>> \o <<c, s>> \o <<w>>
    <2>1. /\ q \in Seq(Statements) /\ Len(q) = 6
          /\ q[1] = c /\ q[2] = s /\ q[3] = k /\ q[4] = c /\ q[5] = s /\ q[6] = w
        BY <1>1
    <2> HIDE DEF q
    <2>2. Fit(q)
        BY <1>1, <1>2, <2>1
    <2>3. QED
        BY <2>2 DEF q
<1>10. Fit(<<c, s>> \o <<k>> \o <<c, s>> \o <<k>> \o <<w>>) /\ Both(<<c, s>> \o <<k>> \o <<c, s>> \o <<k>> \o <<w>>)
    <2> DEFINE q == <<c, s>> \o <<k>> \o <<c, s>> \o <<k>> \o <<w>>
    <2>1. /\ q \in Seq(Statements) /\ Len(q) = 7
          /\ q[1] = c /\ q[2] = s /\ q[3] = k /\ q[4] = c /\ q[5] = s /\ q[6] = k /\ q[7] = w
        BY <1>1
    <2> HIDE DEF q
    <2>2. Fit(q) /\ Both(q)
        BY <1>1, <1>2, <2>1
    <2>3. QED
        BY <2>2 DEF q
<1>11. Fit(<<c, s>> \o <<c, s>> \o <<k>> \o <<w>>) /\ Both(<<c, s>> \o <<c, s>> \o <<k>> \o <<w>>)
    <2> DEFINE q == <<c, s>> \o <<c, s>> \o <<k>> \o <<w>>
    <2>1. /\ q \in Seq(Statements) /\ Len(q) = 6
          /\ q[1] = c /\ q[2] = s /\ q[3] = c /\ q[4] = s /\ q[5] = k /\ q[6] = w
        BY <1>1
    <2> HIDE DEF q
    <2>2. Fit(q) /\ Both(q)
        BY <1>1, <1>2, <2>1
    <2>3. QED
        BY <2>2 DEF q
<1> HIDE DEF Fit, Both
<1>12. QED
    BY <1>4, <1>5, <1>6, <1>7, <1>8, <1>9, <1>10, <1>11

LEMMA BatchGood ==
    ASSUME NEW n \in Nat \ {0}, NEW batch \in [1 .. n -> Orders],
           \A i, j \in 1 .. n : i < j => batch[i] < batch[j]
    PROVE  /\ Started("sweep", 0, Batch(batch)) \in Sessions
           /\ Good(Started("sweep", 0, Batch(batch)))
<1> DEFINE a == [i \in DOMAIN batch |-> Do("claim", batch[i])]
<1> DEFINE b == [i \in DOMAIN batch |-> Do("settle", batch[i])]
<1> DEFINE q == a \o b
<1> DEFINE r == Started("sweep", 0, q)
<1>1. /\ a \in Seq(Statements) /\ Len(a) = n
      /\ b \in Seq(Statements) /\ Len(b) = n
    <2>1. \A i \in 1 .. n : Do("claim", batch[i]) \in Statements /\ Do("settle", batch[i]) \in Statements
        BY OrderStatements
    <2>2. DOMAIN batch = 1 .. n
        OBVIOUS
    <2>3. QED
        BY <2>1, <2>2
<1>2. \A i \in 1 .. n : /\ a[i].do = "claim" /\ a[i].of = batch[i]
                        /\ b[i].do = "settle" /\ b[i].of = batch[i] /\ batch[i] \in Orders
    BY DEF Do
<1>3. Batch(batch) = q
    BY DEF Batch
<1> HIDE DEF a, b
<1>4. /\ q \in Seq(Statements) /\ Len(q) = n + n
      /\ \A i \in 1 .. n : q[i] = a[i]
    <2>1. /\ q \in Seq(Statements) /\ Len(q) = Len(a) + Len(b)
          /\ \A i \in 1 .. Len(a) : q[i] = a[i]
        BY <1>1, Prefixed
    <2>2. QED
        BY <1>1, <2>1
<1>5. \A i \in 1 .. Len(q) : i \notin 1 .. n => q[i].do = "settle" /\ q[i].of \in Orders
    <2> SUFFICES ASSUME NEW i \in 1 .. Len(q), i \notin 1 .. n
                 PROVE  q[i].do = "settle" /\ q[i].of \in Orders
        OBVIOUS
    <2> DEFINE j == i - n
    <2>1. j \in 1 .. n /\ n + j = i
        BY <1>4
    <2>2. q[n + j] = b[j]
        BY <1>1, <2>1, Prefixed
    <2>3. QED
        BY <1>2, <2>1, <2>2
<1> HIDE DEF q
<1>6. r \in Sessions /\ r.kind = "sweep" /\ r.todo = q /\ r.held = {} /\ r.claimed = {}
    <2>1. r = Started("sweep", 0, q)
        OBVIOUS
    <2> HIDE DEF r
    <2>2. QED
        BY <1>4, <2>1 DEF Started, Idle, Sessions, Kinds
<1> HIDE DEF r
<1>7. \A i \in 1 .. Len(q) : q[i].do \in {"claim", "settle"} /\ q[i].of \in Orders
    BY <1>2, <1>4, <1>5
<1>8. \A i, j \in 1 .. Len(q) : i < j /\ q[j].do = "claim" => q[i].do = "claim" /\ q[i].of < q[j].of
    <2> SUFFICES ASSUME NEW i \in 1 .. Len(q), NEW j \in 1 .. Len(q), i < j, q[j].do = "claim"
                 PROVE  q[i].do = "claim" /\ q[i].of < q[j].of
        OBVIOUS
    <2>1. j \in 1 .. n /\ i \in 1 .. n
        BY <1>4, <1>5
    <2>2. QED
        BY <1>2, <1>4, <2>1
<1>9. Sweeping(r)
    BY <1>6, <1>7, <1>8 DEF Sweeping
<1>10. Good(r)
    BY <1>6, <1>9 DEF Good, OnOneOrder, Filling, OnOneAccount
<1>11. QED
    BY <1>3, <1>6, <1>10 DEF r

\* Two or three statements on a user, the links and the session.
LEMMA AccountGood ==
    ASSUME NEW u \in Users, NEW kind \in OnOneAccount, NEW todo \in Seq(Statements),
           \A i \in 1 .. Len(todo) :
              todo[i].of = u /\ (ForUser(todo[i]) \/ todo[i].do \in {"session", "token"}),
           \A i, j \in 1 .. Len(todo) : j < i =>
              /\ ForUser(todo[i]) => ~ForUser(todo[j])
              /\ todo[i].do = "token" => todo[j].do # "session"
    PROVE  Started(kind, 0, todo) \in Sessions /\ Good(Started(kind, 0, todo))
<1> DEFINE none == 0
<1> DEFINE r == Started(kind, none, todo)
<1>1. kind \in Kinds /\ none \in Orders \cup {0} /\ r = Started(kind, none, todo)
    BY DEF Kinds, OnOneAccount
<1> HIDE DEF none
<1> HIDE DEF r
<1>2. /\ r \in Sessions /\ r.kind = kind /\ r.todo = todo /\ r.held = {}
    BY <1>1, Fresh
<1>3. OnAccount(r)
    BY <1>2 DEF OnAccount
<1>4. Good(r)
    BY <1>2, <1>3 DEF Good, OnOneOrder, Filling, OnOneAccount
<1>5. QED
    BY <1>2, <1>4 DEF r, none

LEMMA AccountsGood ==
    ASSUME NEW u \in Users
    PROVE  \A kind \in OnOneAccount :
              \A todo \in {Rotation(u), Reset(u), Recovery(u), Verification(u), Mailing(u, "owner"),
                           Mailing(u, "stamp"), Profile(u)} :
                 Started(kind, 0, todo) \in Sessions /\ Good(Started(kind, 0, todo))
<1> DEFINE Fit(todo) ==
       /\ todo \in Seq(Statements)
       /\ \A i \in 1 .. Len(todo) :
             todo[i].of = u /\ (ForUser(todo[i]) \/ todo[i].do \in {"session", "token"})
       /\ \A i, j \in 1 .. Len(todo) : j < i =>
             /\ ForUser(todo[i]) => ~ForUser(todo[j])
             /\ todo[i].do = "token" => todo[j].do # "session"
<1>1. \A what \in {"user", "owner", "stamp", "session", "token"} : Do(what, u) \in Statements
    BY DEF Do, Statements, Tables
<1>2. \A what : Do(what, u).do = what /\ Do(what, u).of = u
    BY DEF Do
<1>3. ASSUME NEW x \in {"user", "owner", "stamp", "session", "token"},
             NEW y \in {"user", "owner", "stamp", "session", "token"},
             x \in {"session", "token"} \/ y \in {"session", "token"}, x # "session" \/ y # "token"
      PROVE  Fit(<<Do(x, u), Do(y, u)>>)
    BY <1>1, <1>2, <1>3 DEF ForUser
<1>4. Fit(<<Do("token", u), Do("user", u), Do("session", u)>>)
    BY <1>1, <1>2 DEF ForUser
<1>5. /\ Fit(Rotation(u)) /\ Fit(Reset(u)) /\ Fit(Recovery(u)) /\ Fit(Verification(u))
      /\ Fit(Mailing(u, "owner")) /\ Fit(Mailing(u, "stamp")) /\ Fit(Profile(u))
    <2> HIDE DEF Fit
    <2>1. QED
        BY <1>3, <1>4 DEF Rotation, Reset, Recovery, Verification, Mailing, Profile
<1>6. QED
    BY <1>5, AccountGood

\* Idle fits, and locks nothing.
LEMMA IdleGood == Idle \in Sessions /\ Good(Idle) /\ Idle.held = {}
<1>1. Idle \in Sessions
    BY DEF Idle, Sessions, Kinds
<1>2. Good(Idle)
    BY DEF Idle, Good, OnOneOrder, Filling, OnOneAccount
<1>3. QED
    BY <1>1, <1>2 DEF Idle

-----------------------------------------------------------------------------
(* The invariant is inductive *)

\* A step of one session.
LEMMA Changes ==
    ASSUME IInv, NEW t \in Transactions, NEW n \in Sessions, Good(n),
           n.held \subseteq tx[t].held
              \cup {x \in Locks : \A u \in Transactions \ {t} : \A y \in tx[u].held : ~Clash(y, x)},
           tx' = [tx EXCEPT ![t] = n],
           phase' \in [Orders -> Phases], lapsed' \in SUBSET Orders
    PROVE  IInv'
<1>1. /\ tx \in [Transactions -> Sessions]
      /\ \A u, w \in Transactions : u # w => \A x \in tx[u].held, y \in tx[w].held : ~Clash(x, y)
      /\ \A u \in Transactions : Good(tx[u])
    BY DEF IInv, TypeOK
<1>2. /\ tx' \in [Transactions -> Sessions] /\ tx'[t] = n
      /\ \A u \in Transactions : u # t => tx'[u] = tx[u]
    BY <1>1
<1>3. \A x, y : Clash(x, y) => Clash(y, x)
    BY DEF Clash
<1>4. \A u \in Transactions : u # t => \A x \in n.held, y \in tx[u].held : ~Clash(x, y) /\ ~Clash(y, x)
    BY <1>1, <1>3
<1>5. \A u, w \in Transactions : u # w => \A x \in tx'[u].held, y \in tx'[w].held : ~Clash(x, y)
    BY <1>1, <1>2, <1>4
<1>6. \A u \in Transactions : Good(tx'[u])
    BY <1>1, <1>2
<1>7. QED
    BY <1>2, <1>5, <1>6 DEF IInv, TypeOK

LEMMA InitIInv == Init => IInv
<1> SUFFICES ASSUME Init PROVE IInv
    OBVIOUS
<1>1. /\ phase \in [Orders -> Phases] /\ lapsed \in SUBSET Orders
      /\ tx = [t \in Transactions |-> Idle]
    BY DEF Init, Phases
<1>2. QED
    BY <1>1, IdleGood DEF IInv, TypeOK

\* A session that begins, or that ends.
LEMMA BeginKeeps ==
    ASSUME IInv, NEW t \in Transactions, NEW kind, NEW o, NEW todo,
           Begin(t, kind, o, todo),
           Started(kind, o, todo) \in Sessions, Good(Started(kind, o, todo))
    PROVE  IInv'
<1> DEFINE n == Started(kind, o, todo)
<1>1. tx' = [tx EXCEPT ![t] = n] /\ UNCHANGED <<phase, lapsed>>
    BY DEF Begin, Started
<1>2. n.held = {}
    BY DEF Started, Idle
<1> HIDE DEF n
<1>3. phase' \in [Orders -> Phases] /\ lapsed' \in SUBSET Orders
    BY <1>1 DEF IInv, TypeOK
<1>4. n \in Sessions /\ Good(n)
    BY DEF n
<1>5. QED
    BY <1>1, <1>2, <1>3, <1>4, Changes

LEMMA EndKeeps ==
    ASSUME IInv, NEW t \in Transactions, tx' = [tx EXCEPT ![t] = Idle],
           phase' \in [Orders -> Phases], lapsed' \in SUBSET Orders
    PROVE  IInv'
    BY IdleGood, Changes

LEMMA BeginOnOrderKeeps ==
    ASSUME IInv, NEW t \in Transactions, BeginOnOrder(t)
    PROVE  IInv'
<1>1. PICK o \in Orders :
         \/ Begin(t, "open", o, Opening(o))
         \/ Begin(t, "checkout", o, Checkout(o))
         \/ Begin(t, "basket", o, Basket(o))
         \/ Begin(t, "submit", o, Submission(o))
         \/ Begin(t, "manual", o, ByHand(o))
         \/ Begin(t, "provider", o, ByProvider(o))
         \/ Begin(t, "attempt", o, NewAttempt(o))
         \/ Begin(t, "cancel", o, Cancellation(o))
         \/ Begin(t, "show", o, Expiry(o))
    BY DEF BeginOnOrder
<1>2. {"manual", "provider", "attempt", "cancel", "show"} \subseteq OnOneOrder
    BY DEF OnOneOrder
<1>3. CASE Begin(t, "submit", o, Submission(o))
    BY <1>3, BasketsGood, BeginKeeps
<1>9. CASE Begin(t, "open", o, Opening(o))
    BY <1>9, BasketsGood, BeginKeeps
<1>10. CASE Begin(t, "checkout", o, Checkout(o))
    BY <1>10, BasketsGood, BeginKeeps
<1>11. CASE Begin(t, "basket", o, Basket(o))
    BY <1>11, BasketsGood, BeginKeeps
<1>4. CASE Begin(t, "manual", o, ByHand(o))
    BY <1>2, <1>4, OrderOperationsGood, BeginKeeps
<1>5. CASE Begin(t, "provider", o, ByProvider(o))
    BY <1>2, <1>5, OrderOperationsGood, BeginKeeps
<1>6. CASE Begin(t, "attempt", o, NewAttempt(o))
    BY <1>2, <1>6, OrderOperationsGood, BeginKeeps
<1>7. CASE Begin(t, "cancel", o, Cancellation(o))
    BY <1>2, <1>7, OrderOperationsGood, BeginKeeps
<1>8. CASE Begin(t, "show", o, Expiry(o))
    BY <1>2, <1>8, OrderOperationsGood, BeginKeeps
<1>12. QED
    BY <1>1, <1>3, <1>4, <1>5, <1>6, <1>7, <1>8, <1>9, <1>10, <1>11

LEMMA BeginSweepKeeps ==
    ASSUME IInv, NEW t \in Transactions, BeginSweep(t)
    PROVE  IInv'
<1>1. lapsed \subseteq Orders /\ Cardinality(lapsed) \in Nat
    <2>1. lapsed \subseteq Orders /\ IsFiniteSet(Orders)
        BY RowLocksAssumption DEF IInv, TypeOK
    <2>2. IsFiniteSet(lapsed)
        BY <2>1, FS_Subset
    <2>3. QED
        BY <2>1, <2>2, FS_CardinalityType
<1>2. PICK n \in 1 .. Cardinality(lapsed) : \E batch \in [1 .. n -> lapsed] :
         /\ \A i, j \in 1 .. n : i < j => batch[i] < batch[j]
         /\ Begin(t, "sweep", 0, Batch(batch))
    BY DEF BeginSweep
<1> PICK batch \in [1 .. n -> lapsed] :
         /\ \A i, j \in 1 .. n : i < j => batch[i] < batch[j]
         /\ Begin(t, "sweep", 0, Batch(batch))
    BY <1>2
<1>3. n \in Nat \ {0} /\ batch \in [1 .. n -> Orders]
    BY <1>1
<1>4. Started("sweep", 0, Batch(batch)) \in Sessions /\ Good(Started("sweep", 0, Batch(batch)))
    BY <1>3, BatchGood
<1>5. QED
    BY <1>4, BeginKeeps

LEMMA BeginOnAccountKeeps ==
    ASSUME IInv, NEW t \in Transactions, BeginOnAccount(t)
    PROVE  IInv'
<1>1. PICK u \in Users : \E kind \in OnOneAccount :
         \E todo \in {Rotation(u), Reset(u), Recovery(u), Verification(u), Mailing(u, "owner"),
                      Mailing(u, "stamp"), Profile(u)} :
            Begin(t, kind, 0, todo)
    BY DEF BeginOnAccount, OnOneAccount
<1>2. QED
    BY <1>1, AccountsGood, BeginKeeps

\* What a session that goes on has yet to do.
LEMMA AtWork ==
    ASSUME IInv, NEW t \in Transactions, Working(t)
    PROVE  /\ tx[t] \in Sessions /\ Good(tx[t]) /\ tx[t].todo # <<>>
           /\ tx[t].todo \in Seq(Statements) /\ Tail(tx[t].todo) \in Seq(Statements)
           /\ Statement(t) = tx[t].todo[1] /\ Statement(t) \in Statements
           /\ Wanted(Statement(t)) \in Locks
<1>1. tx[t] \in Sessions /\ Good(tx[t]) /\ tx[t].todo # <<>> /\ tx[t].todo \in Seq(Statements)
    BY DEF IInv, TypeOK, Working, Sessions
<1>2. Statement(t) = tx[t].todo[1] /\ Statement(t) \in Statements /\ Tail(tx[t].todo) \in Seq(Statements)
    BY <1>1, Rest DEF Statement
<1>3. QED
    BY <1>1, <1>2 DEF Wanted, Mode, Locks

LEMMA SkipKeeps ==
    ASSUME IInv, NEW t \in Transactions, Skip(t)
    PROVE  IInv'
<1> DEFINE r == tx[t]
<1> DEFINE n == [r EXCEPT !.todo = Tail(@)]
<1>1. /\ r \in Sessions /\ Good(r) /\ r.todo # <<>> /\ Tail(r.todo) \in Seq(Statements)
      /\ Statement(t) = r.todo[1] /\ Statement(t) \in Statements
    BY AtWork DEF Skip
<1>2. tx' = [tx EXCEPT ![t] = n] /\ UNCHANGED <<phase, lapsed>>
    BY DEF Skip
<1>3. /\ n \in Sessions /\ n.kind = r.kind /\ n.order = r.order /\ n.todo = Tail(r.todo)
      /\ n.held = r.held /\ n.claimed = r.claimed
    BY <1>1 DEF Sessions
<1>4. \/ r.todo[1].do = "claim"
      \/ r.todo[1].do = "settle" /\ r.todo[1].of \notin r.claimed
    BY <1>1 DEF Skip, Void
<1> HIDE DEF n
<1>5. Good(n)
    BY <1>1, <1>3, <1>4, SkipGood DEF Advanced
<1>6. phase' \in [Orders -> Phases] /\ lapsed' \in SUBSET Orders
    BY <1>2 DEF IInv, TypeOK
<1>7. QED
    BY <1>2, <1>3, <1>5, <1>6, Changes

LEMMA LockKeeps ==
    ASSUME IInv, NEW t \in Transactions, Lock(t)
    PROVE  IInv'
<1> DEFINE r == tx[t]
<1> DEFINE x == Wanted(Statement(t))
<1> DEFINE n == [r EXCEPT !.todo = Tail(@), !.held = @ \cup {x}]
<1>1. /\ r \in Sessions /\ Good(r) /\ r.todo # <<>> /\ Tail(r.todo) \in Seq(Statements)
      /\ Statement(t) = r.todo[1] /\ Statement(t) \in Statements /\ x \in Locks
      /\ \A u \in Transactions \ {t} : \A y \in tx[u].held : ~Clash(y, x)
      /\ Statement(t).do \notin {"claim", "settle"}
    BY AtWork DEF Lock, Grantable
<1>2. tx' = [tx EXCEPT ![t] = n] /\ UNCHANGED <<phase, lapsed>>
    BY DEF Lock, IInv, TypeOK
<1>3. /\ n \in Sessions /\ n.kind = r.kind /\ n.order = r.order /\ n.todo = Tail(r.todo)
      /\ n.held = r.held \cup {x} /\ n.claimed = r.claimed
    BY <1>1 DEF Sessions
<1> HIDE DEF n
<1>4. Good(n)
    BY <1>1, <1>3, LockGood DEF Advanced
<1>5. phase' \in [Orders -> Phases] /\ lapsed' \in SUBSET Orders
    BY <1>2 DEF IInv, TypeOK
<1>6. n.held \subseteq r.held \cup {z \in Locks : \A u \in Transactions \ {t} : \A y \in tx[u].held : ~Clash(y, z)}
    BY <1>1, <1>3
<1>7. QED
    BY <1>2, <1>3, <1>4, <1>5, <1>6, Changes

LEMMA ClaimKeeps ==
    ASSUME IInv, NEW t \in Transactions, Claim(t)
    PROVE  IInv'
<1> DEFINE r == tx[t]
<1> DEFINE x == Wanted(Statement(t))
<1> DEFINE n == [r EXCEPT !.todo = Tail(@), !.held = @ \cup {x}, !.claimed = @ \cup {Statement(t).of}]
<1>1. /\ r \in Sessions /\ Good(r) /\ r.todo # <<>> /\ Tail(r.todo) \in Seq(Statements)
      /\ Statement(t) = r.todo[1] /\ Statement(t) \in Statements /\ x \in Locks
      /\ \A u \in Transactions \ {t} : \A y \in tx[u].held : ~Clash(y, x)
      /\ Statement(t).do = "claim" /\ Statement(t).of \in Orders
    BY AtWork DEF Claim, Grantable, Void, Due, IInv, TypeOK
<1>2. tx' = [tx EXCEPT ![t] = n] /\ UNCHANGED <<phase, lapsed>>
    BY DEF Claim, IInv, TypeOK
<1>3. /\ n \in Sessions /\ n.kind = r.kind /\ n.order = r.order /\ n.todo = Tail(r.todo)
      /\ n.held = r.held \cup {x} /\ n.claimed = r.claimed \cup {Statement(t).of}
    BY <1>1 DEF Sessions
<1> HIDE DEF n
<1>4. Good(n)
    BY <1>1, <1>3, ClaimGood DEF Advanced
<1>5. phase' \in [Orders -> Phases] /\ lapsed' \in SUBSET Orders
    BY <1>2 DEF IInv, TypeOK
<1>6. n.held \subseteq r.held \cup {z \in Locks : \A u \in Transactions \ {t} : \A y \in tx[u].held : ~Clash(y, z)}
    BY <1>1, <1>3
<1>7. QED
    BY <1>2, <1>3, <1>4, <1>5, <1>6, Changes

LEMMA SettleKeeps ==
    ASSUME IInv, NEW t \in Transactions, Settle(t)
    PROVE  IInv'
<1> DEFINE r == tx[t]
<1> DEFINE x == Wanted(Statement(t))
<1> DEFINE o == Statement(t).of
<1> DEFINE Settled(todo, closes) ==
       [r EXCEPT !.todo = todo, !.held = @ \cup {x},
                 !.claimed = @ \ {o}, !.settled = @ \cup {o}, !.closes = closes]
<1>1. /\ r \in Sessions /\ Good(r) /\ r.todo # <<>> /\ Tail(r.todo) \in Seq(Statements)
      /\ Statement(t) = r.todo[1] /\ Statement(t) \in Statements /\ x \in Locks
      /\ \A u \in Transactions \ {t} : \A y \in tx[u].held : ~Clash(y, x)
      /\ Statement(t).do = "settle" /\ o \in r.claimed
    BY AtWork DEF Settle, Grantable, Void
<1>2. o \in Orders /\ Len(Lines[o]) \in Nat
    BY <1>1, RowLocksAssumption DEF Sessions
<1>3. PICK f \in Seq(Statements), closes \in SUBSET Orders :
         /\ \A i \in 1 .. Len(f) : VariantLock(f[i])
         /\ tx' = [tx EXCEPT ![t] = Settled(f \o Tail(r.todo), closes)]
    <2>1. CASE phase[o] # "submitted"
        <3> DEFINE e == <<>>
        <3>1. e \in Seq(Statements) /\ Len(e) = 0 /\ e \o Tail(r.todo) = Tail(r.todo)
            BY <1>1
        <3>2. tx' = [tx EXCEPT ![t] = Settled(Tail(r.todo), r.closes)]
            BY <2>1 DEF Settle, IInv, TypeOK
        <3> HIDE DEF e
        <3>3. r.closes \in SUBSET Orders /\ \A i \in 1 .. Len(e) : VariantLock(e[i])
            BY <1>1, <3>1 DEF Sessions
        <3>4. tx' = [tx EXCEPT ![t] = Settled(e \o Tail(r.todo), r.closes)]
            BY <3>1, <3>2
        <3> HIDE DEF Settled
        <3>5. QED
            BY <3>1, <3>3, <3>4
    <2>2. CASE phase[o] = "submitted"
        <3>1. PICK n \in 0 .. Len(Lines[o]), cancelled \in BOOLEAN :
                 tx' = [tx EXCEPT ![t] = Settled(ForVariants("variant", o, n) \o Tail(r.todo),
                           IF cancelled THEN r.closes \cup {o} ELSE r.closes)]
            BY <2>2 DEF Settle, IInv, TypeOK
        <3> DEFINE closes == IF cancelled THEN r.closes \cup {o} ELSE r.closes
        <3>2. closes \in SUBSET Orders
            BY <1>1, <1>2 DEF Sessions
        <3>3. /\ ForVariants("variant", o, n) \in Seq(Statements)
              /\ \A i \in 1 .. Len(ForVariants("variant", o, n)) :
                    VariantLock(ForVariants("variant", o, n)[i])
            <4> DEFINE g == ForVariants("variant", o, n)
            <4>1. /\ g \in Seq(Statements) /\ Len(g) = n
                  /\ \A i \in 1 .. n : g[i].do = "variant" /\ g[i].of \in Variants
                BY <1>2, VariantStatements
            <4> HIDE DEF g
            <4>2. \A i \in 1 .. Len(g) : VariantLock(g[i])
                BY <4>1 DEF VariantLock, ForVariant
            <4>3. QED
                BY <4>1, <4>2 DEF g
        <3> HIDE DEF Settled, closes
        <3>4. QED
            BY <3>1, <3>2, <3>3 DEF closes
    <2>3. QED
        BY <2>1, <2>2
<1> DEFINE n == Settled(f \o Tail(r.todo), closes)
<1>4. f \o Tail(r.todo) \in Seq(Statements)
    BY <1>1, Prefixed
<1>5. /\ n \in Sessions /\ n.kind = r.kind /\ n.order = r.order
      /\ n.todo = f \o Tail(r.todo)
      /\ n.held = r.held \cup {x} /\ n.claimed = r.claimed \ {o}
    BY <1>1, <1>2, <1>4 DEF Sessions
<1>6. tx' = [tx EXCEPT ![t] = n]
    BY <1>3
<1> HIDE DEF n, Settled
<1>7. Good(n)
    BY <1>1, <1>3, <1>5, SettleGood
<1>8. phase' \in [Orders -> Phases] /\ lapsed' \in SUBSET Orders
    BY DEF Settle, IInv, TypeOK
<1>9. QED
    BY <1>1, <1>5, <1>6, <1>7, <1>8, Changes

LEMMA EndsKeep ==
    ASSUME IInv, NEW t \in Transactions,
           Reject(t) \/ RollBack(t) \/ Detect(t) \/ Commit(t)
    PROVE  IInv'
<1>1. tx' = [tx EXCEPT ![t] = Idle]
    BY DEF Reject, RollBack, Detect, Commit
<1>2. phase' \in [Orders -> Phases] /\ lapsed' \in SUBSET Orders
    <2>1. CASE UNCHANGED <<phase, lapsed>>
        BY <2>1 DEF IInv, TypeOK
    <2>2. CASE Commit(t)
        BY <2>2 DEF Commit, IInv, TypeOK, Phases
    <2>3. QED
        BY <2>1, <2>2 DEF Reject, RollBack, Detect
<1>3. QED
    BY <1>1, <1>2, EndKeeps

LEMMA NextIInv == IInv /\ [Next]_vars => IInv'
<1> SUFFICES ASSUME IInv, [Next]_vars PROVE IInv'
    OBVIOUS
<1>1. ASSUME NEW t \in Transactions, BeginOnOrder(t) PROVE IInv'
    BY <1>1, BeginOnOrderKeeps
<1>2. ASSUME NEW t \in Transactions, BeginSweep(t) PROVE IInv'
    BY <1>2, BeginSweepKeeps
<1>3. ASSUME NEW t \in Transactions, BeginOnAccount(t) PROVE IInv'
    BY <1>3, BeginOnAccountKeeps
<1>4. ASSUME NEW t \in Transactions, Skip(t) PROVE IInv'
    BY <1>4, SkipKeeps
<1>5. ASSUME NEW t \in Transactions, Lock(t) PROVE IInv'
    BY <1>5, LockKeeps
<1>6. ASSUME NEW t \in Transactions, Claim(t) PROVE IInv'
    BY <1>6, ClaimKeeps
<1>7. ASSUME NEW t \in Transactions, Settle(t) PROVE IInv'
    BY <1>7, SettleKeeps
<1>8. ASSUME NEW t \in Transactions, Reject(t) \/ RollBack(t) \/ Detect(t) \/ Commit(t)
      PROVE  IInv'
    BY <1>8, EndsKeep
<1>9. ASSUME NEW o \in Orders, Lapse(o) PROVE IInv'
    BY <1>9 DEF Lapse, IInv, TypeOK
<1>10. CASE UNCHANGED vars
    BY <1>10 DEF vars, IInv, TypeOK
<1>11. QED
    BY <1>1, <1>2, <1>3, <1>4, <1>5, <1>6, <1>7, <1>8, <1>9, <1>10 DEF Next, Advance

THEOREM Invariance == Spec => []IInv
<1>1. QED
    BY InitIInv, NextIInv, PTL DEF Spec

-----------------------------------------------------------------------------
(* No two transactions ever have locks that clash, and every variable keeps its
   type, whatever the transactions, their orders and their order of events. *)
THEOREM TypeCorrect == Spec => []TypeOK
<1>1. IInv => TypeOK
    BY DEF IInv
<1>2. QED
    BY <1>1, Invariance, PTL

(* However many of these transactions wait for one another in a circle, there is
   among them an expiry that has rows and wants their order, one that has a lock
   on a variant and wants a second, or one that has a session or a link and wants
   its user: without these the order of the locks rules their deadlocks out. *)
THEOREM EveryCircleIsInverted == Spec => []CyclesAreInverted
<1>1. QED
    BY Circles, Invariance, PTL
=============================================================================
