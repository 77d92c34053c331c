------------------------------- MODULE Ordering -------------------------------
(***************************************************************************)
(* Drafts, quotes, baskets and checkout (apps/api/src/ordering,            *)
(* commerce.service.ts createOrder, marketplace.service.ts setPreference). *)
(*                                                                         *)
(* A customer takes a draft from its file through layout, approval and     *)
(* quote to an order, alone or with other drafts of a basket, while        *)
(* layouts are made again or fail, tariffs and catalogs are published and  *)
(* quotes expire.  Every command is one serializable transaction that      *)
(* compares the version it was given; createLayout and approve commit a    *)
(* change of the layout first and the draft's in a second transaction.     *)
(*                                                                         *)
(* Versions are only compared with versions read before.  A quote, or a    *)
(* command between its transactions, that holds a version of a draft is    *)
(* therefore kept as long as that version is the current one and void from *)
(* the change that increments it: the comparison would refuse it for ever. *)
(***************************************************************************)
EXTENDS LayoutLife, SequencesExt, Naturals

CONSTANTS
  Drafts,
  Settled,    \* bound: drafts approved before, which only go into baskets
  File,       \* the uploads of the settled drafts
  Baskets,
  MaxItems    \* of a basket; 10 in the source

ASSUME OrderingAssumption ==
  /\ None \notin Drafts \cup Uploads \cup Configs
  /\ Settled \subseteq Drafts /\ File \in [Settled -> Uploads]
  /\ MaxItems \in Nat \ {0}

VARIABLES
  draft,     \* OrderDraft of each draft, with its preferences
  quote,     \* its latest PriceQuote
  request,   \* a command about it that is between its transactions
  basket,    \* OrderBasket with its items and preferences
  frozen,    \* the basket's latest BasketQuote
  orders     \* the Orders, with their items

draftVars == <<draft, quote, request>>
basketVars == <<basket, frozen>>
vars == <<layout, draftVars, basketVars, orders>>

-----------------------------------------------------------------------------
\* Statuses that no condition tells apart are one. OPEN: CONFIGURING,
\* FILE_UPLOADED, PROCESSING, AWAITING_APPROVAL; CLOSED: CHECKED_OUT, CANCELLED,
\* EXPIRED; NONE: not created.
DraftStatus == {"NONE", "OPEN", "READY_FOR_QUOTE", "QUOTED", "CLOSED"}

\* fulfillmentRequired, and a fulfilment preference that is not invalidated, which
\* requires one from then on.
Preference == {"FREE", "REQUIRED", "CHOSEN"}

\* linked: layoutId is the layout of the upload. approval: layoutApprovalId.
\* retired: the catalog the draft was made from is. ordered: checkedOutAt.
\* The preferred studio is left out: it only gives checkout one more reason to
\* refuse, and a refused command changes nothing.
Draft == [status : DraftStatus, upload : Uploads \cup {None},
          linked : BOOLEAN, approval : Configs \cup {None}, config : Configs,
          preference : Preference, retired : BOOLEAN, ordered : BOOLEAN]

\* The latest quote while it is ACTIVE, has not expired, is of the latest tariff
\* and catalog and of the draft's version: any other quote is void, as none.
Quote == [config : Configs \cup {None}, approval : Configs \cup {None}]
NoQuote == [config |-> None, approval |-> None]

\* What the second transaction of createLayout or approve is to write.
NoRequest == [kind |-> "NONE", approval |-> None]
Request == [kind : {"NONE", "LINK", "APPROVE"}, approval : Configs \cup {None}]

\* ENDED: ACTIVE or QUOTED, and expiresAt is past.
Basket == [status : {"NONE", "ACTIVE", "QUOTED", "CHECKED_OUT", "ENDED"},
           items : BoundedSeq(Drafts, MaxItems),
           chosen : BOOLEAN]

Line == [approval : Configs, file : Configs, config : Configs]
\* The lines of the latest BasketQuote, as long as it is not void.
BasketQuote == BoundedSeq(Line, MaxItems)
NoBasketQuote == <<>>

\* priced: the configuration its price was computed for. by: the draft,
\* basket or (without items) layout that was checked out. upload: the layout's. file: printReadyVersionId.
Item == [draft : Drafts, upload : Uploads, approval : Configs, file : Configs,
         config : Configs, priced : Configs]
Order == [by : Drafts \cup Baskets \cup Uploads, upload : Uploads,
          approval : Configs, file : Configs,
          items : BoundedSeq(Item, MaxItems)]

\* p: whether STAGE13_FULFILLMENT_ENABLED is set.
Start(c, p) == [status |-> "OPEN", upload |-> None, linked |-> FALSE,
                approval |-> None, config |-> c, preference |-> p,
                retired |-> FALSE, ordered |-> FALSE]

\* A basket has a preference of its own.
Prepared(c, u) == [Start(c, "FREE") EXCEPT !.status = "READY_FOR_QUOTE", !.upload = u,
                                  !.linked = TRUE, !.approval = c]
Approved(c) == [status |-> "APPROVED", settings |-> c, made |-> {c},
                artifact |-> c, approval |-> c]

Init ==
  /\ \E c \in Configs :
       /\ layout = [u \in Uploads |->
                      IF u \in Range(File) THEN Approved(c) ELSE NoLayout]
       /\ draft = [d \in Drafts |->
                     IF d \in Settled THEN Prepared(c, File[d])
                     ELSE [Start(c, "FREE") EXCEPT !.status = "NONE"]]
  /\ quote = [d \in Drafts |-> NoQuote]
  /\ request = [d \in Drafts |-> NoRequest]
  /\ basket = [b \in Baskets |-> [status |-> "NONE", items |-> <<>>,
                                  chosen |-> FALSE]]
  /\ frozen = [b \in Baskets |-> NoBasketQuote]
  /\ orders = {}

-----------------------------------------------------------------------------
(* The draft and its file.                                                 *)

\* Mutant of Overtaken: the second transactions compare no version.
OvertakenNever(d) == request

\* A command about the draft that is between its transactions will lose.
Overtaken(d) == [request EXCEPT ![d] = NoRequest]

\* Mutant of BasketQuotesWithout: checkout does not compare draft versions.
BasketQuotesAnyway(ds) == frozen

\* The basket quotes without those that froze one of the drafts.
BasketQuotesWithout(ds) ==
  [b \in Baskets |-> IF Range(basket[b].items) \cap ds = {} THEN frozen[b]
                     ELSE NoBasketQuote]

\* The update of the draft, which increments its version.
Writes(d, row) ==
  /\ draft' = [draft EXCEPT ![d] = row]
  /\ quote' = [quote EXCEPT ![d] = NoQuote]
  /\ request' = Overtaken(d)
  /\ frozen' = BasketQuotesWithout({d})
  /\ UNCHANGED <<layout, basket, orders>>

Exists(d) == draft[d].status # "NONE"

CreateDraft(d, c) ==
  /\ draft[d].status = "NONE"
  /\ \E p \in {"FREE", "REQUIRED"} : Writes(d, Start(c, p))

UpdateDraft(d, c) ==
  /\ Exists(d) /\ draft[d].status # "CLOSED"
  /\ Writes(d, [draft[d] EXCEPT
       !.config = c, !.linked = FALSE, !.approval = None, !.status = "OPEN"])

\* The unique index on OrderDraft.uploadId.
Unlinked(u) == \A d \in Drafts : draft[d].upload # u

LinkUpload(d, u) ==
  /\ Exists(d) /\ (Unlinked(u) \/ draft[d].upload = u)
  /\ Writes(d, [draft[d] EXCEPT !.upload = u, !.linked = FALSE,
                                !.approval = None, !.status = "OPEN"])

\* The upload is created first; when the draft is not updated it is cancelled
\* and nobody else ever sees it.
StartUpload(d, u) ==
  /\ Exists(d) /\ draft[d].upload = None /\ Unlinked(u)
  /\ Writes(d, [draft[d] EXCEPT !.upload = u, !.status = "OPEN"])

-----------------------------------------------------------------------------
(* Layout and approval.                                                    *)

HasLayout(d) == draft[d].upload # None /\ layout[draft[d].upload].status # "NONE"
OwnLayout(d) == layout[draft[d].upload]

LinkLayout(d) ==
  /\ Exists(d) /\ HasLayout(d)
  /\ Writes(d, [draft[d] EXCEPT !.linked = TRUE, !.status = "OPEN"])

\* The status syncDraft derives from the layout.
Synced(l) ==
  IF l.status = "APPROVED" /\ l.approval # None THEN "READY_FOR_QUOTE"
  ELSE "OPEN"

SyncDraft(d) ==
  /\ Exists(d) /\ draft[d].linked
  /\ Writes(d, [draft[d] EXCEPT !.status = Synced(OwnLayout(d)),
                                !.approval = OwnLayout(d).approval])

\* The first transaction of a two-step command; it has read the draft.
Requests(d, kind, a) ==
  /\ request' = [request EXCEPT ![d] = [kind |-> kind, approval |-> a]]
  /\ UNCHANGED <<draft, quote, basketVars, orders>>

\* createLayout: generate. Its preflight goes on as a step of the layout.
CreateLayout(d) ==
  /\ Exists(d) /\ draft[d].upload # None /\ request[d].kind = "NONE"
  /\ \/ Revises(draft[d].upload, draft[d].config)
     \/ /\ OwnLayout(d).settings = draft[d].config
        /\ OwnLayout(d).status # "PROCESSING"
        /\ UNCHANGED layout
  /\ Requests(d, "LINK", None)

\* approve: confirm of the layout's latest preview.
Approve(d) ==
  /\ Exists(d) /\ draft[d].linked /\ request[d].kind = "NONE"
  /\ Approves(draft[d].upload)
  /\ Requests(d, "APPROVE", OwnLayout(d).artifact)

\* The second transaction: the draft still has the version that was read.
Finish(d) ==
  /\ request[d].kind # "NONE"
  /\ draft' = [draft EXCEPT ![d] =
       IF request[d].kind = "LINK"
       THEN [@ EXCEPT !.linked = TRUE, !.status = "OPEN"]
       ELSE [@ EXCEPT !.approval = request[d].approval,
                      !.status = "READY_FOR_QUOTE"]]
  /\ quote' = [quote EXCEPT ![d] = NoQuote]
  /\ request' = [request EXCEPT ![d] = NoRequest]
  /\ frozen' = BasketQuotesWithout({d})
  /\ UNCHANGED <<layout, basket, orders>>

\* The API dies, or the transaction fails, after the first one.
Abandon(d) ==
  /\ request[d].kind # "NONE"
  /\ request' = [request EXCEPT ![d] = NoRequest]
  /\ UNCHANGED <<layout, draft, quote, basketVars, orders>>

\* The layout changes by itself, or by the commands of the layouts API.
LayoutChanges ==
  /\ \E u \in Uploads \ Range(File) : LayoutChange(u)
  /\ UNCHANGED <<draftVars, basketVars, orders>>

-----------------------------------------------------------------------------
(* Preferences, cancellation, expiry.                                      *)

SetFulfillmentPreference(d) ==
  /\ Exists(d) /\ draft[d].status # "CLOSED" /\ draft[d].approval # None
  /\ Writes(d, [draft[d] EXCEPT !.preference = "CHOSEN",
                                !.status = "READY_FOR_QUOTE"])

ClearFulfillmentPreference(d) ==
  /\ Exists(d)
  /\ Writes(d, [draft[d] EXCEPT !.preference = IF @ = "FREE" THEN @ ELSE "REQUIRED",
                                !.status = "READY_FOR_QUOTE"])

\* The studio preference, of marketplace.service.ts.
SetPreference(d) ==
  /\ Exists(d) /\ draft[d].status # "CLOSED"
  /\ Writes(d, [draft[d] EXCEPT
       !.status = IF draft[d].approval = None THEN @ ELSE "READY_FOR_QUOTE"])

\* The unique index on Order.orderDraftId; a basket's order does not set it.
Alone(d) == \A o \in orders : o.by # d

Cancel(d) ==
  /\ Exists(d) /\ Alone(d)
  /\ Writes(d, [draft[d] EXCEPT !.status = "CLOSED"])

\* expireStaleDrafts of the notification worker.
ExpireStaleDraft(d) ==
  /\ Exists(d) /\ draft[d].status # "CLOSED"
  /\ Writes(d, [draft[d] EXCEPT !.status = "CLOSED"])

-----------------------------------------------------------------------------
(* Quote and checkout of one draft.                                        *)

\* Mutant of ApprovalIsCurrent: quoting only asks whether the draft is approved.
ApprovalIsDraft(d) == draft[d].linked /\ draft[d].approval # None

\* The layout is approved, and its approval is the one the draft has.
ApprovalIsCurrent(d) ==
  /\ draft[d].linked
  /\ OwnLayout(d).status = "APPROVED"
  /\ OwnLayout(d).approval # None /\ OwnLayout(d).approval = draft[d].approval
  /\ OwnLayout(d).artifact # None

GetQuote(d) ==
  /\ Exists(d) /\ ApprovalIsCurrent(d)
  /\ ~draft[d].retired /\ draft[d].preference # "REQUIRED"
  /\ draft' = [draft EXCEPT ![d].status = "QUOTED"]
  /\ quote' = [quote EXCEPT ![d] = [config |-> draft[d].config,
                                    approval |-> draft[d].approval]]
  /\ request' = Overtaken(d)
  /\ frozen' = BasketQuotesWithout({d})
  /\ UNCHANGED <<layout, basket, orders>>

\* The unique index on Order.layoutApprovalId.
Unauthorised(u, a) == \A o \in orders : <<o.upload, o.approval>> # <<u, a>>

\* The conditions of createOrder on the quote and its draft (QUOTE_STALE).
QuoteHolds(d) ==
  /\ quote[d] # NoQuote /\ draft[d].status = "QUOTED"
  /\ draft[d].approval = quote[d].approval /\ ~draft[d].retired

\* The price is computed again and must be the quoted one.
Recalculated(d) == draft[d].config = quote[d].config

\* What createOrder writes about the draft.
CheckedOut(ds) ==
  /\ draft' = [d \in Drafts |->
       IF d \in ds THEN [draft[d] EXCEPT !.status = "CLOSED",
                                         !.ordered = TRUE]
       ELSE draft[d]]
  /\ quote' = [d \in Drafts |-> IF d \in ds THEN NoQuote ELSE quote[d]]
  /\ request' = [d \in Drafts |-> IF d \in ds THEN NoRequest ELSE request[d]]
  /\ frozen' = BasketQuotesWithout(ds)

Checkout(d) ==
  LET l == OwnLayout(d)
      item == [draft |-> d, upload |-> draft[d].upload, approval |-> l.approval,
               file |-> l.artifact, config |-> draft[d].config,
               priced |-> quote[d].config]
  IN
  /\ Exists(d) /\ draft[d].approval # None
  /\ QuoteHolds(d) /\ Recalculated(d)
  /\ l.status = "APPROVED" /\ l.approval = draft[d].approval
  /\ draft[d].preference # "REQUIRED"
  /\ Alone(d) /\ Unauthorised(draft[d].upload, l.approval)
  /\ orders' = orders \cup
       {[by |-> d, upload |-> draft[d].upload, approval |-> l.approval,
         file |-> l.artifact, items |-> <<item>>]}
  /\ CheckedOut({d})
  /\ UNCHANGED <<layout, basket>>

\* createOrder without a draft: the price is computed from the layout alone.
CheckoutLayout(u) ==
  /\ layout[u].status = "APPROVED" /\ Unauthorised(u, layout[u].approval)
  /\ orders' = orders \cup
       {[by |-> u, upload |-> u, approval |-> layout[u].approval,
         file |-> layout[u].artifact, items |-> <<>>]}
  /\ UNCHANGED <<layout, draftVars, basketVars>>

-----------------------------------------------------------------------------
(* Baskets.                                                                *)

OnBasket == UNCHANGED <<layout, draftVars, orders>>
Members(b) == Range(basket[b].items)

\* assertMutable.
Mutable(b, status) == basket[b].status = status

Create(b) ==
  /\ basket[b].status = "NONE"
  /\ basket' = [basket EXCEPT ![b].status = "ACTIVE"]
  /\ OnBasket /\ UNCHANGED frozen

Mutate(b, row) ==
  /\ Mutable(b, "ACTIVE")
  /\ basket' = [basket EXCEPT ![b] = row]
  /\ OnBasket /\ UNCHANGED frozen

\* The draft is an item of a basket that is not checked out, ended or not.
InOpenBasket(d) ==
  \E b \in Baskets : basket[b].status \in {"ACTIVE", "QUOTED", "ENDED"} /\ d \in Members(b)

AddItem(b, d) ==
  /\ Len(basket[b].items) < MaxItems
  /\ ~draft[d].ordered /\ ~InOpenBasket(d)
  /\ draft[d].approval # None
  /\ draft[d].status \in {"READY_FOR_QUOTE", "QUOTED"}
  /\ Mutate(b, [basket[b] EXCEPT !.items = Append(@, d)])

\* An item is named by its id, which is its place here.
RemoveItem(b, i) ==
  /\ i \in DOMAIN basket[b].items
  /\ Mutate(b, [basket[b] EXCEPT !.items = RemoveAt(@, i)])

ReorderItem(b, i, n) ==
  /\ {i, n} \subseteq DOMAIN basket[b].items
  /\ Mutate(b, [basket[b] EXCEPT !.items = InsertAt(RemoveAt(@, i), n, @[i])])

SetFulfillment(b) == Mutate(b, [basket[b] EXCEPT !.chosen = TRUE])

\* Quoting looks at the layouts and catalogs of the drafts, not at their status.
QuoteBasket(b) ==
  /\ Mutable(b, "ACTIVE")
  /\ basket[b].items # <<>> /\ basket[b].chosen
  /\ \A d \in Members(b) : ApprovalIsCurrent(d) /\ ~draft[d].retired
  /\ frozen' = [frozen EXCEPT ![b] =
       [i \in DOMAIN basket[b].items |->
          LET d == basket[b].items[i] IN
          [approval |-> draft[d].approval, file |-> OwnLayout(d).artifact,
           config |-> draft[d].config]]]
  /\ basket' = [basket EXCEPT ![b].status = "QUOTED"]
  /\ OnBasket

LineHolds(b, i) ==
  LET d == basket[b].items[i] IN
  /\ draft[d].approval = frozen[b][i].approval
  /\ draft[d].linked /\ OwnLayout(d).artifact = frozen[b][i].file

CheckoutBasket(b) ==
  LET ds == basket[b].items
      lines == frozen[b]
      first == OwnLayout(ds[1])
      item(i) == [draft |-> ds[i], upload |-> draft[ds[i]].upload,
                  approval |-> lines[i].approval, file |-> lines[i].file,
                  config |-> draft[ds[i]].config, priced |-> lines[i].config]
  IN
  /\ Mutable(b, "QUOTED")
  /\ frozen[b] # NoBasketQuote
  /\ \A i \in DOMAIN ds : LineHolds(b, i) /\ ~draft[ds[i]].retired
  /\ Unauthorised(draft[ds[1]].upload, draft[ds[1]].approval)
  /\ orders' = orders \cup
       {[by |-> b, upload |-> draft[ds[1]].upload,
         approval |-> draft[ds[1]].approval, file |-> first.artifact,
         items |-> [i \in DOMAIN ds |-> item(i)]]}
  /\ CheckedOut(Members(b))
  /\ basket' = [basket EXCEPT ![b].status = "CHECKED_OUT"]
  /\ UNCHANGED layout

-----------------------------------------------------------------------------
(* What goes on around the customer.                                       *)

Lapses(ds, bs) ==
  /\ quote' = [d \in Drafts |-> IF d \in ds THEN NoQuote ELSE quote[d]]
  /\ frozen' = [b \in Baskets |-> IF b \in bs THEN NoBasketQuote ELSE frozen[b]]
  /\ UNCHANGED <<layout, draft, request, basket, orders>>

QuoteExpires == \/ \E d \in Drafts : Lapses({d}, {})
                \/ \E b \in Baskets : Lapses({}, {b})

PublishTariff == Lapses(Drafts, Baskets)

\* The catalog a draft was made from is retired for good.
PublishCatalog ==
  /\ draft' = [d \in Drafts |->
       IF Exists(d) THEN [draft[d] EXCEPT !.retired = TRUE] ELSE draft[d]]
  /\ quote' = [d \in Drafts |-> NoQuote]
  /\ frozen' = [b \in Baskets |-> NoBasketQuote]
  /\ UNCHANGED <<layout, request, basket, orders>>

BasketEnds(b) ==
  /\ basket[b].status \in {"ACTIVE", "QUOTED"}
  /\ basket' = [basket EXCEPT ![b].status = "ENDED"]
  /\ frozen' = [frozen EXCEPT ![b] = NoBasketQuote]
  /\ OnBasket

-----------------------------------------------------------------------------
DraftStep(d) ==
  \/ \E c \in Configs : CreateDraft(d, c) \/ UpdateDraft(d, c)
  \/ \E u \in Uploads : LinkUpload(d, u) \/ StartUpload(d, u)
  \/ LinkLayout(d) \/ SyncDraft(d)
  \/ CreateLayout(d) \/ Approve(d) \/ Finish(d) \/ Abandon(d)
  \/ SetFulfillmentPreference(d) \/ ClearFulfillmentPreference(d) \/ SetPreference(d)
  \/ Cancel(d) \/ ExpireStaleDraft(d)
  \/ GetQuote(d) \/ Checkout(d)

BasketStep(b) ==
  \/ Create(b) \/ BasketEnds(b)
  \/ \E d \in Drafts : AddItem(b, d)
  \/ \E i \in 1 .. MaxItems :
       RemoveItem(b, i) \/ \E n \in 1 .. MaxItems : ReorderItem(b, i, n)
  \/ SetFulfillment(b) \/ QuoteBasket(b) \/ CheckoutBasket(b)

Next ==
  \/ \E d \in Drafts \ Settled : DraftStep(d)
  \/ \E b \in Baskets : BasketStep(b)
  \/ \E u \in Uploads \ Range(File) : CheckoutLayout(u)
  \/ LayoutChanges \/ QuoteExpires \/ PublishTariff \/ PublishCatalog

Spec == Init /\ [][Next]_vars

-----------------------------------------------------------------------------
(* Properties.                                                             *)

\* Every variable keeps the shape of the rows it stands for.
TypeOK ==
  /\ layout \in [Uploads -> Layout]
  /\ draft \in [Drafts -> Draft]
  /\ quote \in [Drafts -> Quote]
  /\ request \in [Drafts -> Request]
  /\ basket \in [Baskets -> Basket]
  /\ frozen \in [Baskets -> BasketQuote]
  /\ orders \subseteq Order

\* What is ordered is what the customer was shown. The print-ready file of an
\* order, and of each of its items, is the one its approval was given for, however
\* often the layout was made again or failed between approval, quote and
\* checkout; and an item has the configuration its price was computed for: no edit
\* of a draft comes between the quote and the order.
OrderedAsShown ==
  /\ TypeOK
  /\ \A o \in orders :
       /\ o.file = o.approval
       /\ o.items # <<>> => o.file = o.items[1].file
       /\ \A i \in DOMAIN o.items :
            /\ o.items[i].file = o.items[i].approval
            /\ o.items[i].config = o.items[i].priced

\* A draft has an approval only with the layout it belongs to: an edit that
\* drops the layout is not undone by an approval that was under way.
ApprovalNeedsLayout ==
  \A d \in Drafts : draft[d].approval # None => draft[d].linked
===============================================================================
