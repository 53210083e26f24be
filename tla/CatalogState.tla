---------------------------- MODULE CatalogState ----------------------------
(* What Catalog promises, and the part of its state that the promises are  *)
(* about.                                                                  *)
EXTENDS Integers

CONSTANTS
  MaxOffer,  \* bound of the versions of the plan
  NoContent

CatalogAssumption == MaxOffer \in Nat \ {0}
ASSUME CatalogAssumption

Version == 1..MaxOffer

VARIABLES
  catalog,   \* the row of SUB_CONFIG: its version, the plan, the operation
  versions,  \* [Version -> the plan in SUB_PLAN_HISTORY]
  last,      \* SUB_CATALOG_LAST: what was published last
  mapped,    \* [Version -> the plan in SUB_PLAN_PRICES under its price]
  products,  \* [Version -> its product at Stripe]
  prices,    \* [Version -> its price at Stripe, and what it charges for]
  late       \* the products and prices written last for an operation that was over

\* The price of a plan: none, the one of a version, or one of Terraform.
NoPrice == 0
Foreign == MaxOffer + 1

NoOffer == [version |-> 0, content |-> NoContent, enabled |-> FALSE, price |-> NoPrice]
NoOperation == [id |-> 0, plan |-> NoOffer, previous |-> NoOffer]

Publishing == catalog.operation # NoOperation

Snapshots ==
  ({catalog.plan, catalog.operation.plan, last} \cup {versions[v] : v \in Version}
    \cup {mapped[v] : v \in Version}) \ {NoOffer}

\* A version is one offer wherever it is kept: among the plans, in the history, in an operation,
\* behind a price and at Stripe, which charges for what subscribers of that price are granted.
VersionsMeanOneThing ==
  \A p \in Snapshots :
    /\ \A q \in Snapshots : q.version = p.version => q.content = p.content
    /\ prices[p.version].state # "none" => prices[p.version].content = p.content

\* A publication ends with the plan it began with, so no edit is lost in it, and what the plan
\* then sells is a price that leads back to this version.
PublicationsKeepEdits ==
  /\ Publishing => catalog.operation.plan = catalog.plan
  /\ catalog.plan.price \in Version =>
       catalog.plan.price = catalog.plan.version /\ mapped[catalog.plan.price] # NoOffer

\* Between publications Stripe sells the version that was published last, if it is available,
\* and no other, except where a request went on for an operation that others had finished.
OneVersionIsSold ==
  last # NoOffer /\ ~Publishing =>
    \A v \in Version :
      LET sold == v = last.version /\ last.enabled IN
        /\ <<"product", v>> \notin late => (products[v] = "active" <=> sold)
        /\ <<"price", v>> \notin late => (prices[v].state = "active" <=> sold)

\* However edits and publications cross, fail and are resumed, a version of the plan means one
\* offer, no edit is lost in a publication, and Stripe sells the version that was published last
\* and no other, unless a request went on for an operation that others had finished
\* (Subscriptions.saveSettings, publishPlan, StripeCatalog.publish).
CatalogIsTrue == VersionsMeanOneThing /\ PublicationsKeepEdits /\ OneVersionIsSold
=============================================================================
