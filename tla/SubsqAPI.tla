------------------------------ MODULE SubsqAPI ------------------------------
(***************************************************************************)
(* What the HTTP API promises a client, whatever else goes on: a call takes  *)
(* effect at one moment between the request and its answer, or not at all;   *)
(* and a refusal is right at some moment of the call.                        *)
(*                                                                          *)
(*   2xx  the effect has happened;                                           *)
(*   404  a row the call names was missing, or somebody else's;              *)
(*   400  the payment method the call names was missing, or somebody else's, *)
(*        or the contents were not valid;                                    *)
(*   409  one of the payment methods was in use;                             *)
(*   500  nothing: the effect may have happened or not.                      *)
(*                                                                          *)
(* The one weak promise is the update of a subscription: see Patched.        *)
(***************************************************************************)
EXTENDS SubsqCalls

VARIABLE phase  \* of each request: idle, pending, applied

vars == <<tables, call, answer, phase>>

Init ==
    /\ InitTables
    /\ call = [r \in Requests |-> NULL]
    /\ answer = [r \in Requests |-> NULL]
    /\ phase = [r \in Requests |-> "idle"]

-----------------------------------------------------------------------------
Register(u) == InsertUser(u) /\ UNCHANGED <<call, answer, phase>>

Submit(r) ==
    /\ phase[r] = "idle"
    /\ UNCHANGED tables
    /\ answer' = [answer EXCEPT ![r] = NULL]
    /\ \E c \in Calls : WellFormed(c) /\ call' = [call EXCEPT ![r] = c]
    /\ phase' = [phase EXCEPT ![r] = "pending"]

Give(r, status) ==
    /\ call' = [call EXCEPT ![r] = NULL]
    /\ phase' = [phase EXCEPT ![r] = "idle"]
    /\ answer' = [answer EXCEPT ![r] = status]
    /\ UNCHANGED tables

Reject(r) == phase[r] = "idle" /\ Give(r, "invalid")

\* A row may refer to this payment method of user u.
Referable(p, u) == p # NULL => OwnPaymentMethod(p, u)

\* What an update may leave of the row: the fields it mentions are as it says;
\* of the others it only promises that they are legal.  (A client that reads
\* "keep existing value" may expect more.)
Patched(old, new, c) ==
    /\ new \in SubscriptionRow
    /\ new.user = old.user
    /\ new.plan \in ValidPlans
    /\ c.plan # KeepPlan => new.plan = c.plan
    /\ c.paymentMethod # KeepPaymentMethod => new.paymentMethod = c.paymentMethod
    /\ Referable(new.paymentMethod, new.user)

Effect(c) ==
    \/ /\ c.op = "CreateSubscription"
       /\ c.user \in users
       /\ Referable(c.paymentMethod, c.user)
       /\ InsertSubscriptionRow(NewRow(c))
    \/ /\ c.op = "UpdateSubscription"
       /\ OwnSubscription(c.id, c.user)
       /\ \E new \in SubscriptionRow :
            /\ Patched(subscriptions[c.id], new, c)
            /\ SetSubscriptionRow(c.id, new)
    \/ /\ c.op \in {"DeleteSubscription", "DeleteSubscriptions"}
       /\ RemoveRows(Targets(c))
    \/ /\ c.op = "CreatePaymentMethod"
       /\ c.user \in users
       /\ InsertPaymentMethodRow([user |-> c.user, name |-> c.name])
    \/ /\ c.op = "UpdatePaymentMethod"
       /\ OwnPaymentMethod(c.id, c.user)
       /\ SetPaymentMethodName(c.id, c.name)
    \/ c.op = "DeletePaymentMethods" /\ ~Used(Targets(c)) /\ RemoveRows(Targets(c))
    \/ c.op = "DeleteCurrentUser" /\ RemoveUser(c.user)

Apply(r) ==
    /\ phase[r] = "pending"
    /\ Effect(call[r])
    /\ phase' = [phase EXCEPT ![r] = "applied"]
    /\ UNCHANGED <<call, answer>>

Succeed(r) == phase[r] = "applied" /\ Give(r, "ok")

Missing(c) ==
    CASE c.op = "UpdateSubscription" -> ~OwnSubscription(c.id, c.user)
      [] c.op = "DeleteSubscription" -> ~OwnSubscription(c.id, c.user)
      [] c.op = "UpdatePaymentMethod" -> ~OwnPaymentMethod(c.id, c.user)
      [] c.op \in {"DeleteSubscriptions", "DeletePaymentMethods"} -> SomeMissing(c)
      [] c.op = "DeleteCurrentUser" -> c.user \notin users
      [] OTHER -> FALSE

NotFound(r) == phase[r] = "pending" /\ Missing(call[r]) /\ Give(r, "notfound")

\* An update that does not mention the payment method checks the one it read,
\* and may find that it went away in the meantime.
Unacceptable(c) ==
    CASE c.op = "CreateSubscription" -> ~Referable(c.paymentMethod, c.user)
      [] c.op = "UpdateSubscription" ->
            \/ c.plan \notin ValidPlans \cup {KeepPlan}
            \/ IF c.paymentMethod # KeepPaymentMethod
               THEN ~OwnPaymentMethod(c.paymentMethod, c.user)
               ELSE \E p \in PaymentMethodIds \ fresh : paymentMethods[p] = NULL
      [] OTHER -> FALSE

Invalid(r) == phase[r] = "pending" /\ Unacceptable(call[r]) /\ Give(r, "invalid")

InUse(r) ==
    /\ phase[r] = "pending"
    /\ call[r].op = "DeletePaymentMethods"
    /\ Used(call[r].ids)
    /\ Give(r, "inuse")

Error(r) == phase[r] \in {"pending", "applied"} /\ Give(r, "error")

-----------------------------------------------------------------------------
Next ==
    \/ \E u \in UserIds : Register(u)
    \/ \E r \in Requests :
        \/ Submit(r)
        \/ Reject(r)
        \/ Apply(r)
        \/ Succeed(r)
        \/ NotFound(r)
        \/ Invalid(r)
        \/ InUse(r)
        \/ Error(r)

Spec == Init /\ [][Next]_vars
=============================================================================
