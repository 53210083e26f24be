------------------------------- MODULE Catalog -------------------------------
(***************************************************************************)
(* packages/subscriptions and subscriptions-stripe: one plan of the        *)
(* catalog, its versions, and their publication at Stripe.  Requests of    *)
(* administrators interleave at every await.  A publication that failed is *)
(* resumed by another request, while the first may still go on.            *)
(***************************************************************************)
EXTENDS CatalogState

CONSTANTS
  Request,  \* concurrent requests
  Content,  \* what a version of the plan sells
  MaxRow    \* bound of the versions of the row of the settings

VARIABLES
  request   \* [Request -> its request]

vars == <<catalog, versions, last, mapped, products, prices, request, late>>

-----------------------------------------------------------------------------
Idle == [phase |-> "idle"]

Init ==
  /\ \E c \in Content, on \in BOOLEAN :
       catalog = [version |-> 1, operation |-> NoOperation,
                   plan |-> [version |-> 1, content |-> c, enabled |-> on, price |-> NoPrice]]
  /\ versions = [v \in Version |-> NoOffer]
  /\ last = NoOffer
  /\ mapped = [v \in Version |-> NoOffer]
  /\ products = [v \in Version |-> "none"]
  /\ prices = [v \in Version |-> [state |-> "none", content |-> NoContent]]
  /\ request = [r \in Request |-> Idle]
  /\ late = {}

Goes(r, phase) == request' = [request EXCEPT ![r].phase = phase]
Ends(r) == request' = [request EXCEPT ![r] = Idle]

stripeVars == <<products, prices, late>>

-----------------------------------------------------------------------------
(* saveSettings(), editPlan(), restorePlan(), linkStripePrices()           *)

\* Bug: a synchronization that is under way locks nothing.
AlwaysEditable == TRUE

Editable == ~Publishing

\* What an administrator makes of the plan that is shown: content and availability, or an
\* earlier version, or the same again as a new version.
Drafts ==
  [content : Content, enabled : BOOLEAN, restored : {FALSE}]
    \cup {[content |-> p.content, enabled |-> catalog.plan.enabled, restored |-> TRUE] :
            p \in {catalog.plan} \cup ({versions[v] : v \in Version} \ {NoOffer})}

\* The version that is shown is the one that is written over, so both reads are one.
Edit(r, draft) ==
  /\ request[r] = Idle /\ Editable /\ catalog.version < MaxRow
  /\ request' = [request EXCEPT ![r] = [phase |-> "save", row |-> catalog, draft |-> draft]]
  /\ UNCHANGED <<catalog, versions, last, mapped, stripeVars>>

Changed(prior, draft) == draft.restored \/ draft.content # prior.content

\* A new version has no price; availability is of no version.
Saved(prior, draft) ==
  IF Changed(prior, draft)
    THEN [version |-> prior.version + 1, content |-> draft.content, enabled |-> draft.enabled,
          price |-> NoPrice]
    ELSE [prior EXCEPT !.content = draft.content, !.enabled = draft.enabled]

Save(r) ==
  /\ request[r].phase = "save"
  /\ LET prior == request[r].row.plan
         changed == Changed(prior, request[r].draft)
     IN
       /\ changed => prior.version < MaxOffer
       /\ IF catalog.version = request[r].row.version /\ (changed => versions[prior.version] = NoOffer)
            THEN /\ catalog' = [request[r].row EXCEPT !.version = @ + 1, !.plan = Saved(@, request[r].draft)]
                 /\ versions' = IF changed THEN [versions EXCEPT ![prior.version] = prior] ELSE versions
            ELSE UNCHANGED <<catalog, versions>>
  /\ Ends(r)
  /\ UNCHANGED <<last, mapped, stripeVars>>

\* Ids that were made outside are attached to the plan as it is.
Link(r) ==
  /\ request[r] = Idle /\ Editable /\ catalog.version < MaxRow /\ catalog.plan.price # Foreign
  /\ request' = [request EXCEPT ![r] = [phase |-> "link", row |-> catalog]]
  /\ UNCHANGED <<catalog, versions, last, mapped, stripeVars>>

Linked(r) ==
  /\ request[r].phase = "link"
  /\ catalog' = IF catalog.version = request[r].row.version
       THEN [catalog EXCEPT !.version = @ + 1, !.plan = [@ EXCEPT !.price = Foreign]] ELSE catalog
  /\ Ends(r)
  /\ UNCHANGED <<versions, last, mapped, stripeVars>>

-----------------------------------------------------------------------------
(* publishPlan(): the operation                                            *)

\* An operation that is pending is resumed as it was begun.
Publish(r) ==
  /\ request[r] = Idle
  /\ IF Publishing
       THEN request' = [request EXCEPT ![r] = [phase |-> "product", op |-> catalog.operation]]
       ELSE /\ catalog.version < MaxRow
            /\ request' = [request EXCEPT ![r] = [phase |-> "previous", row |-> catalog]]
  /\ UNCHANGED <<catalog, versions, last, mapped, stripeVars>>

\* The id is a fresh UUID; the version of the row is as good.
ReadPrevious(r) ==
  /\ request[r].phase = "previous"
  /\ LET row == request[r].row IN
       request' = [request EXCEPT ![r] =
         [phase |-> "begin", row |-> row, op |-> [id |-> row.version, plan |-> row.plan, previous |-> last]]]
  /\ UNCHANGED <<catalog, versions, last, mapped, stripeVars>>

BeginOperation(r) ==
  /\ request[r].phase = "begin"
  /\ IF catalog.version = request[r].row.version
       THEN /\ catalog' = [catalog EXCEPT !.version = @ + 1, !.operation = request[r].op]
            /\ request' = [request EXCEPT ![r] = [phase |-> "product", op |-> request[r].op]]
       ELSE Ends(r) /\ UNCHANGED catalog
  /\ UNCHANGED <<versions, last, mapped, stripeVars>>

-----------------------------------------------------------------------------
(* StripeCatalog.publish(): the ids are hashes of the version, and an      *)
(* idempotency key makes two creations at a time one                       *)

Of(enabled) == IF enabled THEN "active" ELSE "inactive"
Writes(r, what, v) ==
  late' = IF catalog.operation.id = request[r].op.id THEN late \ {<<what, v>>} ELSE late \cup {<<what, v>>}

Product(r) ==
  /\ request[r].phase = "product"
  /\ LET plan == request[r].op.plan IN
       /\ products' = [products EXCEPT ![plan.version] = IF @ = "none" THEN Of(plan.enabled) ELSE @]
       /\ Goes(r, "price")
  /\ UNCHANGED <<catalog, versions, last, mapped, prices, late>>

\* A price is refused that charges for something else.
Price(r) ==
  /\ request[r].phase = "price"
  /\ LET plan == request[r].op.plan
         found == prices[plan.version]
     IN
       /\ prices' = IF found.state = "none"
            THEN [prices EXCEPT ![plan.version] = [state |-> Of(plan.enabled), content |-> plan.content]]
            ELSE prices
       /\ IF found.state = "none" \/ found.content = plan.content THEN Goes(r, "productOn") ELSE Ends(r)
  /\ UNCHANGED <<catalog, versions, last, mapped, products, late>>

ProductOn(r) ==
  /\ request[r].phase = "productOn"
  /\ LET plan == request[r].op.plan IN
       products' = [products EXCEPT ![plan.version] = Of(plan.enabled)] /\ Writes(r, "product", plan.version)
  /\ Goes(r, "priceOn")
  /\ UNCHANGED <<catalog, versions, last, mapped, prices>>

\* Bug: what was sold before is left as it is.
ReplacesNothing(op) == FALSE

Replaces(op) == op.previous # NoOffer /\ op.previous.version # op.plan.version

PriceOn(r) ==
  /\ request[r].phase = "priceOn"
  /\ LET op == request[r].op IN
       /\ prices' = [prices EXCEPT ![op.plan.version].state = Of(op.plan.enabled)]
       /\ Writes(r, "price", op.plan.version)
       /\ Goes(r, IF Replaces(op) THEN "priceOff" ELSE "current")
  /\ UNCHANGED <<catalog, versions, last, mapped, products>>

PriceOff(r) ==
  /\ request[r].phase = "priceOff"
  /\ LET v == request[r].op.previous.version IN
       prices' = [prices EXCEPT ![v].state = "inactive"] /\ Writes(r, "price", v)
  /\ Goes(r, "productOff")
  /\ UNCHANGED <<catalog, versions, last, mapped, products>>

ProductOff(r) ==
  /\ request[r].phase = "productOff"
  /\ LET v == request[r].op.previous.version IN
       products' = [products EXCEPT ![v] = "inactive"] /\ Writes(r, "product", v)
  /\ Goes(r, "current")
  /\ UNCHANGED <<catalog, versions, last, mapped, prices>>

-----------------------------------------------------------------------------
(* publishPlan(): the end                                                  *)

\* Bug: whatever operation is pending is taken for this one.
AnyPending(op) == Publishing

StillPending(op) == catalog.operation.id = op.id

ReadCurrent(r) ==
  /\ request[r].phase = "current"
  /\ IF StillPending(request[r].op)
       THEN request' = [request EXCEPT ![r] = [phase |-> "finish", op |-> @.op, row |-> catalog]]
       ELSE Ends(r)
  /\ UNCHANGED <<catalog, versions, last, mapped, stripeVars>>

Finish(r) ==
  /\ request[r].phase = "finish"
  /\ LET v == request[r].op.plan.version
         plan == [request[r].op.plan EXCEPT !.price = v]
     IN
       IF catalog.version = request[r].row.version
         THEN /\ catalog' = [version |-> catalog.version + 1, plan |-> plan, operation |-> NoOperation]
              /\ last' = plan
              /\ mapped' = [mapped EXCEPT ![v] = plan]
         ELSE UNCHANGED <<catalog, last, mapped>>
  /\ Ends(r)
  /\ UNCHANGED <<versions, stripeVars>>

\* An error of any call, even of one that was carried out, or the end of the process.
Fail(r) ==
  /\ request[r] # Idle /\ Ends(r)
  /\ UNCHANGED <<catalog, versions, last, mapped, stripeVars>>

Next ==
  \E r \in Request :
    \/ \E draft \in Drafts : Edit(r, draft)
    \/ Save(r) \/ Link(r) \/ Linked(r) \/ Publish(r) \/ ReadPrevious(r) \/ BeginOperation(r)
    \/ Product(r) \/ Price(r) \/ ProductOn(r) \/ PriceOn(r) \/ PriceOff(r) \/ ProductOff(r)
    \/ ReadCurrent(r) \/ Finish(r) \/ Fail(r)

Spec == Init /\ [][Next]_vars
=============================================================================
