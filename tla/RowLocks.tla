------------------------------ MODULE RowLocks ------------------------------
(***************************************************************************)
(* Who waits for whom: the row locks that the transactions on orders and   *)
(* on accounts take, and in which order.                                   *)
(*                                                                         *)
(* A transaction is the sequence of its statements that lock: SELECT ...   *)
(* FOR UPDATE, UPDATE, and the INSERT of a row with a foreign key, which   *)
(* shares the row it refers to.  What it has locked it keeps until it      *)
(* ends.  An order stands for its row and for those of its lines, which    *)
(* are always locked together (_lock_order_items_for_order); so are the    *)
(* reservation rows of an order one row, and the links mailed to a user.   *)
(*                                                                         *)
(* The order of the locks is inverted in three places.  The expiry of      *)
(* lapsed rows, which runs first in every operation on an order, again     *)
(* inside the stock operations, and in a job over many orders, locks the   *)
(* rows before their order.  Whoever needs several variants locks them in  *)
(* the order of the basket, and a checkout shares all of them before it    *)
(* locks the first.  A rotation locks the session, and the use of a link   *)
(* the link, before the user that others lock first.                       *)
(*                                                                         *)
(* Left out, and not covered by what is shown here: payments, locked under *)
(* their submitted order or, by a late credit, before the share of one     *)
(* that is closed; incidents and refunds; webhook events, idempotency      *)
(* records and throttles, locked before all else; logins; the shares of    *)
(* users, products and discounts by a new order; and the edits of the      *)
(* catalogue, the stock an administrator takes from a product included.    *)
(***************************************************************************)
EXTENDS Naturals, Sequences, FiniteSets

CONSTANTS
    Orders,        \* ids of orders
    Variants,      \* ids of variants
    Lines,         \* the variants of an order, in the order of its lines' ids
    Users,         \* users with an account
    Transactions   \* database sessions

ASSUME RowLocksAssumption ==
    /\ Orders \subseteq Nat /\ IsFiniteSet(Orders)
    /\ Lines \in [Orders -> Seq(Variants)]

VARIABLES
    phase,    \* Order.status, paid and cancelled being one: closed; none without a row
    lapsed,   \* the submitted orders whose rows are past expires_at
    tx        \* what each session has locked and has yet to do

vars == <<phase, lapsed, tx>>

Phases == {"none", "draft", "submitted", "closed"}
Kinds == {"idle", "open", "basket", "checkout", "submit", "manual", "provider", "attempt",
          "cancel", "show", "sweep", "rotate", "reset", "recover", "verify", "mail", "profile"}
Idle == [kind |-> "idle", order |-> 0, todo |-> <<>>, held |-> {},
         claimed |-> {}, settled |-> {}, closes |-> {}]

-----------------------------------------------------------------------------
\* Statements.  "claim" locks the lapsed rows of an order, "settle" locks their
\* order and decides; "draft" and "submitted" lock an order and check its status;
\* "line" inserts a line of a variant, "debit" takes its stock; "owner" inserts a
\* link of a user, "stamp" does that and writes on the user.
Do(what, id) == [do |-> what, of |-> id]

Tables == [claim |-> "rows", rows |-> "rows", settle |-> "order", draft |-> "order",
           submitted |-> "order", variant |-> "variant", line |-> "variant",
           debit |-> "variant", user |-> "user", owner |-> "user", stamp |-> "user",
           session |-> "session", token |-> "token"]

\* FOR KEY SHARE, FOR NO KEY UPDATE and FOR UPDATE; the last two differ only on the
\* rows that somebody shares.
Mode(what) ==
    CASE what \in {"line", "owner"} -> "share"
      [] what \in {"debit", "stamp"} -> "nokey"
      [] OTHER -> "update"

Wanted(s) == <<Tables[s.do], s.of, Mode(s.do)>>

\* Two locks that two transactions cannot have at the same time.
Clash(x, y) ==
    /\ x[1] = y[1] /\ x[2] = y[2]
    /\ "share" \notin {x[3], y[3]} \/ "update" \in {x[3], y[3]}

ForVariants(what, o, n) == [i \in 1 .. n |-> Do(what, Lines[o][i])]
ForEach(what, o) == ForVariants(what, o, Len(Lines[o]))
Expiry(o) == <<Do("claim", o), Do("settle", o)>>

\* The statements of each operation.  A draft has no rows to expire; an order that
\* an expiry has just cancelled is refused by the check that follows.
Check(o) == <<Do("submitted", o)>>
Opening(o) == ForEach("line", o)
Basket(o) == <<Do("draft", o)>> \o ForEach("line", o)
Submission(o) == <<Do("draft", o)>> \o ForEach("variant", o)
Checkout(o) == ForEach("line", o) \o ForEach("variant", o)
NewAttempt(o) == Expiry(o) \o Check(o) \o Expiry(o) \o Check(o)
ByHand(o) == NewAttempt(o) \o <<Do("rows", o)>> \o ForEach("debit", o)
ByProvider(o) ==
    Expiry(o) \o Expiry(o) \o Check(o) \o <<Do("rows", o)>> \o ForEach("debit", o)
\* Mutation: the rows before their order.
RowsFirst(o) == Expiry(o) \o <<Do("rows", o)>> \o Check(o)
Cancellation(o) ==
    Expiry(o) \o Check(o) \o Expiry(o) \o <<Do("rows", o)>>
Rotation(u) == <<Do("session", u), Do("user", u)>>
Reset(u) == <<Do("user", u), Do("session", u)>>
Recovery(u) == <<Do("token", u), Do("user", u), Do("session", u)>>
Verification(u) == <<Do("token", u), Do("user", u)>>
Mailing(u, write) == <<Do("token", u), Do(write, u)>>
Profile(u) == <<Do("user", u), Do("token", u)>>

\* The job locks all the rows of its batch before the first of their orders.
Batch(batch) ==
    [i \in DOMAIN batch |-> Do("claim", batch[i])]
        \o [i \in DOMAIN batch |-> Do("settle", batch[i])]

-----------------------------------------------------------------------------
Busy(t) == tx[t].kind # "idle"
Working(t) == Busy(t) /\ tx[t].todo # <<>>
Statement(t) == Head(tx[t].todo)

\* Rows that this transaction's own expiry has not already renewed or expired.
Due(t, o) == o \in lapsed \ tx[t].settled

\* A statement that finds nothing to lock.
Void(t) ==
    LET s == Statement(t)
    IN  \/ s.do = "claim" /\ ~Due(t, s.of)
        \/ s.do = "settle" /\ s.of \notin tx[t].claimed

\* Mutation: an expiry that does not wait.
GrantableToExpiry(t) ==
    Statement(t).do = "claim" \/
        \A u \in Transactions \ {t} : \A x \in tx[u].held : ~Clash(x, Wanted(Statement(t)))
Grantable(t) ==
    \A u \in Transactions \ {t} : \A x \in tx[u].held : ~Clash(x, Wanted(Statement(t)))

WaitsFor(t, u) ==
    /\ Working(t) /\ ~Void(t) /\ t # u
    /\ \E x \in tx[u].held : Clash(x, Wanted(Statement(t)))

\* The status an order must have for the operation to go on; a report of the
\* provider may have read it before somebody closed the order.
Fits(t) ==
    LET s == Statement(t)
    IN  /\ s.do = "draft" => phase[s.of] = "draft"
        /\ s.do = "submitted" =>
              /\ s.of \notin tx[t].closes
              /\ phase[s.of] \in {"submitted"} \cup IF tx[t].kind = "provider" THEN {"closed"} ELSE {}

\* Everybody in S waits for somebody in S, and is waited for.
Cycle(S) ==
    /\ S # {}
    /\ \A t \in S : (\E u \in S : WaitsFor(t, u)) /\ (\E u \in S : WaitsFor(u, t))

-----------------------------------------------------------------------------
Init ==
    /\ phase \in [Orders -> {"none", "draft", "submitted"}]
    /\ lapsed = {}
    /\ tx = [t \in Transactions |-> Idle]

Begin(t, kind, o, todo) ==
    /\ ~Busy(t)
    /\ tx' = [tx EXCEPT ![t] = [Idle EXCEPT !.kind = kind, !.order = o, !.todo = todo]]
    /\ UNCHANGED <<phase, lapsed>>

\* A new order has an id that nobody else has.
IsNew(o) ==
    phase[o] = "none" /\ \A t \in Transactions : tx[t].kind \in {"open", "checkout"} => tx[t].order # o

BeginOnOrder(t) ==
    \E o \in Orders :
        \/ IsNew(o) /\ (Begin(t, "open", o, Opening(o)) \/ Begin(t, "checkout", o, Checkout(o)))
        \/ Begin(t, "basket", o, Basket(o))
        \/ Begin(t, "submit", o, Submission(o))
        \/ Begin(t, "manual", o, ByHand(o))
        \/ Begin(t, "provider", o, ByProvider(o))
        \/ Begin(t, "attempt", o, NewAttempt(o))
        \/ Begin(t, "cancel", o, Cancellation(o))
        \/ Begin(t, "show", o, Expiry(o))

\* A batch takes the lapsed orders from the lowest id on, up to its limit.
BeginSweep(t) ==
    \E n \in 1 .. Cardinality(lapsed) :
        \E batch \in [1 .. n -> lapsed] :
            /\ \A i, j \in 1 .. n : i < j => batch[i] < batch[j]
            /\ \A o \in lapsed : (\E i \in 1 .. n : batch[i] = o) \/ batch[n] < o
            /\ Begin(t, "sweep", 0, Batch(batch))

BeginOnAccount(t) ==
    \E u \in Users :
        \/ Begin(t, "rotate", 0, Rotation(u))
        \/ Begin(t, "reset", 0, Reset(u))
        \/ Begin(t, "recover", 0, Recovery(u))
        \/ Begin(t, "verify", 0, Verification(u))
        \/ \E write \in {"owner", "stamp"} : Begin(t, "mail", 0, Mailing(u, write))
        \/ Begin(t, "profile", 0, Profile(u))

Skip(t) ==
    /\ Working(t) /\ Void(t)
    /\ tx' = [tx EXCEPT ![t].todo = Tail(@)]
    /\ UNCHANGED <<phase, lapsed>>

\* A lock is granted and nothing more is decided.
Lock(t) ==
    /\ Working(t) /\ Grantable(t) /\ Fits(t)
    /\ Statement(t).do \notin {"claim", "settle"}
    /\ tx' = [tx EXCEPT ![t] = [tx[t] EXCEPT !.todo = Tail(@), !.held = @ \cup {Wanted(Statement(t))}]]
    /\ UNCHANGED <<phase, lapsed>>

Claim(t) ==
    /\ Working(t) /\ ~Void(t) /\ Grantable(t)
    /\ Statement(t).do = "claim"
    /\ tx' = [tx EXCEPT ![t] = [tx[t] EXCEPT !.todo = Tail(@), !.held = @ \cup {Wanted(Statement(t))},
                                             !.claimed = @ \cup {Statement(t).of}]]
    /\ UNCHANGED <<phase, lapsed>>

\* The order of lapsed rows: cancelled at once when they cannot be renewed again,
\* or else every variant in turn until one does not cover its line.
Settle(t) ==
    /\ Working(t) /\ ~Void(t) /\ Grantable(t)
    /\ Statement(t).do = "settle"
    /\ LET o == Statement(t).of
           Settled(todo, closes) ==
               [tx[t] EXCEPT !.todo = todo, !.held = @ \cup {Wanted(Statement(t))},
                             !.claimed = @ \ {o}, !.settled = @ \cup {o}, !.closes = closes]
       IN  \/ /\ phase[o] # "submitted"
              /\ tx' = [tx EXCEPT ![t] = Settled(Tail(@.todo), @.closes)]
           \/ /\ phase[o] = "submitted"
              /\ \E n \in 0 .. Len(Lines[o]), cancelled \in BOOLEAN :
                    /\ n < Len(Lines[o]) => cancelled
                    /\ tx' = [tx EXCEPT ![t] =
                                Settled(ForVariants("variant", o, n) \o Tail(@.todo),
                                        IF cancelled THEN @.closes \cup {o} ELSE @.closes)]
    /\ UNCHANGED <<phase, lapsed>>

\* The order is not in the status the operation needs: it raises.
Reject(t) ==
    /\ Working(t) /\ Grantable(t) /\ ~Fits(t)
    /\ tx' = [tx EXCEPT ![t] = Idle]
    /\ UNCHANGED <<phase, lapsed>>

\* What else can end a transaction before its commit: not enough stock, a payment
\* that does not match, a lost connection, a worker that dies.
RollBack(t) ==
    /\ Busy(t)
    /\ tx' = [tx EXCEPT ![t] = Idle]
    /\ UNCHANGED <<phase, lapsed>>

Closed(t) ==
    tx[t].closes \cup (IF tx[t].kind \in {"manual", "provider", "cancel"}
                       THEN {tx[t].order} ELSE {})

Commit(t) ==
    /\ Busy(t) /\ tx[t].todo = <<>>
    /\ phase' = [o \in Orders |->
                    CASE o \in Closed(t) -> "closed"
                      [] tx[t].kind \in {"submit", "checkout"} /\ o = tx[t].order -> "submitted"
                      [] tx[t].kind = "open" /\ o = tx[t].order -> "draft"
                      [] OTHER -> phase[o]]
    /\ lapsed' = lapsed \ (tx[t].settled \cup Closed(t))
    /\ tx' = [tx EXCEPT ![t] = Idle]

\* PostgreSQL ends one of the transactions that wait for one another.
Detect(t) ==
    /\ \E S \in SUBSET Transactions : t \in S /\ Cycle(S)
    /\ tx' = [tx EXCEPT ![t] = Idle]
    /\ UNCHANGED <<phase, lapsed>>

\* Hours pass: all the rows of an order lapse together.
Lapse(o) ==
    /\ phase[o] = "submitted" /\ o \notin lapsed
    /\ lapsed' = lapsed \cup {o}
    /\ UNCHANGED <<phase, tx>>

Advance(t) == Skip(t) \/ Lock(t) \/ Claim(t) \/ Settle(t) \/ Reject(t) \/ Commit(t)

Next ==
    \/ \E t \in Transactions :
          \/ BeginOnOrder(t) \/ BeginSweep(t) \/ BeginOnAccount(t)
          \/ Advance(t) \/ RollBack(t) \/ Detect(t)
    \/ \E o \in Orders : Lapse(o)

Spec == Init /\ [][Next]_vars

-----------------------------------------------------------------------------
Statements == [do : DOMAIN Tables, of : Orders \cup Variants \cup Users]
Locks == {Wanted(s) : s \in Statements}

Sessions ==
    [kind : Kinds, order : Orders \cup {0}, todo : Seq(Statements), held : SUBSET Locks,
     claimed : SUBSET Orders, settled : SUBSET Orders, closes : SUBSET Orders]

(* Every variable keeps its type and no two transactions have locks that clash. *)
TypeOK ==
    /\ phase \in [Orders -> Phases]
    /\ lapsed \in SUBSET Orders
    /\ tx \in [Transactions -> Sessions]
    /\ \A t, u \in Transactions :
          t # u => \A x \in tx[t].held, y \in tx[u].held : ~Clash(x, y)

(* Where the order of the locks is inverted: an expiry that has the rows and
   wants their order; a transaction that has a variant, shared or not, and wants
   another or the same one for itself; a rotation that has the session, or the
   use of a link that has the link, and wants the user. *)
Inverted(t) ==
    \/ Statement(t).do = "settle"
    \/ Tables[Statement(t).do] = "variant" /\ \E x \in tx[t].held : x[1] = "variant"
    \/ Tables[Statement(t).do] = "user" /\ \E x \in tx[t].held : x[1] \in {"session", "token"}

(* Of the transactions modelled here, those that lock an order, its rows and one
   variant, or a user and then its link or session, never wait for one another
   in a circle: every circle has in it an expiry after its order, somebody after
   a second lock on variants, as two checkouts of one variant are, or a rotation
   or the use of a link after its user. *)
CyclesAreInverted ==
    \A S \in SUBSET Transactions : Cycle(S) => \E t \in S : Inverted(t)

=============================================================================
