---------------------------- MODULE OrderingProofs ----------------------------
(* What holds of Ordering, for any drafts, uploads, configurations and baskets *)
(* of any size.                                                                *)
EXTENDS Ordering, SequenceTheorems, TLAPS

-----------------------------------------------------------------------------
(* The inductive invariant.                                                  *)

\* A layout has an approval exactly while it is APPROVED, and then that of its
\* artifact; it has settings and an artifact when its next step needs them.
LayoutTells(u) ==
  /\ layout[u].status = "PROCESSING" => layout[u].settings # None
  /\ layout[u].status \in {"AWAITING_APPROVAL", "MANUAL_REVIEW_REQUIRED"} =>
       layout[u].artifact # None
  /\ (layout[u].status = "APPROVED") <=> (layout[u].approval # None)
  /\ layout[u].approval # None => layout[u].approval = layout[u].artifact

\* A draft is linked to the layout of its upload, and a command that is between
\* its transactions finds the draft as it read it.
DraftTells(d) ==
  /\ draft[d].linked => draft[d].upload # None
  /\ draft[d].approval # None => draft[d].linked
  /\ request[d].kind # "NONE" => draft[d].upload # None
  /\ request[d].kind = "APPROVE" => draft[d].linked

\* A basket quote that is not void froze the drafts as they still are, each
\* with the file its approval was given for.
QuoteTells(b) ==
  frozen[b] # NoBasketQuote =>
    /\ basket[b].status = "QUOTED" /\ DOMAIN frozen[b] = DOMAIN basket[b].items
    /\ \A i \in DOMAIN frozen[b] :
         /\ frozen[b][i].file = frozen[b][i].approval
         /\ frozen[b][i].config = draft[basket[b].items[i]].config

\* What OrderedAsShown says of one order.
Shown(o) ==
  /\ o.file = o.approval
  /\ o.items # <<>> => o.file = o.items[1].file
  /\ \A i \in DOMAIN o.items :
       /\ o.items[i].file = o.items[i].approval
       /\ o.items[i].config = o.items[i].priced

IInv ==
  /\ TypeOK
  /\ \A u \in Uploads : LayoutTells(u)
  /\ \A d \in Drafts : DraftTells(d)
  /\ \A b \in Baskets : QuoteTells(b)
  /\ \A o \in orders : Shown(o)

-----------------------------------------------------------------------------
(* Sequences of bounded length.                                              *)

LEMMA BoundedIsSeq ==
  ASSUME NEW S, NEW s
  PROVE  s \in BoundedSeq(S, MaxItems) <=> s \in Seq(S) /\ Len(s) <= MaxItems
<1>1. ASSUME s \in BoundedSeq(S, MaxItems) PROVE s \in Seq(S) /\ Len(s) <= MaxItems
  <2>1. PICK n \in 0 .. MaxItems : s \in [1 .. n -> S]
    BY <1>1 DEF BoundedSeq, SeqOf
  <2> QED BY <2>1, OrderingAssumption
<1>2. ASSUME s \in Seq(S), Len(s) <= MaxItems PROVE s \in BoundedSeq(S, MaxItems)
  <2>1. s \in [1 .. Len(s) -> S] /\ Len(s) \in 0 .. MaxItems
    BY <1>2, LenProperties, OrderingAssumption
  <2> QED BY <2>1 DEF BoundedSeq, SeqOf
<1> QED BY <1>1, <1>2

LEMMA EmptyIsBounded == ASSUME NEW S PROVE <<>> \in BoundedSeq(S, MaxItems)
<1>1. <<>> \in Seq(S) /\ Len(<<>>) = 0 /\ 0 <= MaxItems
  BY EmptySeq, OrderingAssumption
<1> QED BY <1>1, BoundedIsSeq

\* A function on the places of a bounded sequence is one.
LEMMA SameLength ==
  ASSUME NEW S, NEW T, NEW s \in BoundedSeq(S, MaxItems),
         NEW t \in [DOMAIN s -> T]
  PROVE  t \in BoundedSeq(T, MaxItems)
<1>1. PICK n \in 0 .. MaxItems : s \in [1 .. n -> S]
  BY DEF BoundedSeq, SeqOf
<1> QED BY <1>1 DEF BoundedSeq, SeqOf

\* Removing an item leaves a shorter sequence, inserting one a longer one.
LEMMA RemovedTyped ==
  ASSUME NEW S, NEW s \in Seq(S), NEW i \in 1 .. Len(s)
  PROVE  RemoveAt(s, i) \in Seq(S) /\ Len(RemoveAt(s, i)) = Len(s) - 1
<1>1. Len(s) \in Nat /\ i \in Nat /\ \A j \in 1 .. Len(s) : s[j] \in S
  BY LenProperties
<1>2. SubSeq(s, 1, i - 1) \in Seq(S) /\ Len(SubSeq(s, 1, i - 1)) = i - 1
  <2>1. \A j \in 1 .. i - 1 : s[j] \in S
    BY <1>1
  <2> QED BY <1>1, <2>1, SubSeqProperties
<1>3. SubSeq(s, i + 1, Len(s)) \in Seq(S) /\ Len(SubSeq(s, i + 1, Len(s))) = Len(s) - i
  <2>1. \A j \in i + 1 .. Len(s) : s[j] \in S
    BY <1>1
  <2>2. i + 1 \in Int /\ Len(s) \in Int
    BY <1>1
  <2> DEFINE m == i + 1
             n == Len(s)
  <2>3. SubSeq(s, m, n) \in Seq(S) /\ Len(SubSeq(s, m, n)) = IF m <= n THEN n - m + 1 ELSE 0
    <3> HIDE DEF m, n
    <3> QED BY <2>1, <2>2, SubSeqProperties DEF m, n
  <2> QED BY <1>1, <2>3
<1> DEFINE s1 == SubSeq(s, 1, i - 1)
           s2 == SubSeq(s, i + 1, Len(s))
<1>4. RemoveAt(s, i) = s1 \o s2
  BY DEF RemoveAt
<1>5. /\ s1 \in Seq(S) /\ s2 \in Seq(S)
      /\ Len(s1) = i - 1 /\ Len(s2) = Len(s) - i
  BY <1>2, <1>3
<1> HIDE DEF s1, s2
<1>6. Len(s1) + Len(s2) = Len(s) - 1
  BY <1>1, <1>5
<1> QED BY <1>4, <1>5, <1>6, ConcatProperties

LEMMA InsertedTyped ==
  ASSUME NEW S, NEW s \in Seq(S), NEW i \in 1 .. Len(s) + 1, NEW e \in S
  PROVE  InsertAt(s, i, e) \in Seq(S) /\ Len(InsertAt(s, i, e)) = Len(s) + 1
<1>1. Len(s) \in Nat /\ i \in Nat /\ \A j \in 1 .. Len(s) : s[j] \in S
  BY LenProperties
<1> DEFINE s1 == SubSeq(s, 1, i - 1)
           n == Len(s)
           s2 == SubSeq(s, i, n)
<1>2. s1 \in Seq(S) /\ Len(s1) = i - 1
  <2>1. \A j \in 1 .. i - 1 : s[j] \in S
    BY <1>1
  <2> QED BY <1>1, <2>1, SubSeqProperties
<1>3. s2 \in Seq(S) /\ Len(s2) = n - i + 1
  <2>1. n \in Int /\ \A j \in i .. n : s[j] \in S
    BY <1>1
  <2>2. s2 \in Seq(S) /\ Len(s2) = IF i <= n THEN n - i + 1 ELSE 0
    <3> HIDE DEF n
    <3> QED BY <1>1, <2>1, SubSeqProperties
  <2> QED BY <1>1, <2>2
<1>4. InsertAt(s, i, e) = s1 \o <<e>> \o s2
  BY DEF InsertAt
<1>5. Len(s1) + 1 + Len(s2) = Len(s) + 1
  BY <1>1, <1>2, <1>3
<1>6. <<e>> \in Seq(S) /\ Len(<<e>>) = 1
  OBVIOUS
<1> HIDE DEF s1, s2, n
<1> DEFINE s3 == s1 \o <<e>>
<1>7. s3 \in Seq(S) /\ Len(s3) = Len(s1) + 1
  BY <1>2, <1>6, ConcatProperties
<1>8. InsertAt(s, i, e) = s3 \o s2
  BY <1>4
<1> HIDE DEF s3
<1>9. s3 \o s2 \in Seq(S) /\ Len(s3 \o s2) = Len(s3) + Len(s2)
  BY <1>3, <1>7, ConcatProperties
<1> QED BY <1>5, <1>7, <1>8, <1>9

-----------------------------------------------------------------------------
(* The layout.                                                               *)

LEMMA LayoutRow ==
  ASSUME IInv, NEW u \in Uploads
  PROVE  layout \in [Uploads -> Layout] /\ layout[u] \in Layout /\ LayoutTells(u)
BY DEF IInv, TypeOK

\* What LayoutTells says of a row.
RowTells(l) ==
  /\ l.status = "PROCESSING" => l.settings # None
  /\ l.status \in {"AWAITING_APPROVAL", "MANUAL_REVIEW_REQUIRED"} => l.artifact # None
  /\ (l.status = "APPROVED") <=> (l.approval # None)
  /\ l.approval # None => l.approval = l.artifact

LEMMA LayoutSet ==
  ASSUME IInv, NEW u \in Uploads, NEW l \in Layout, RowTells(l),
         layout' = [layout EXCEPT ![u] = l]
  PROVE  layout' \in [Uploads -> Layout] /\ \A v \in Uploads : LayoutTells(v)'
<1>1. layout' \in [Uploads -> Layout] /\ layout'[u] = l
      /\ \A v \in Uploads \ {u} : layout'[v] = layout[v]
  BY DEF IInv, TypeOK
<1>2. ASSUME NEW v \in Uploads PROVE LayoutTells(v)'
  <2>1. CASE v = u
    BY <1>1, <2>1 DEF LayoutTells, RowTells
  <2>2. CASE v # u
    BY <1>1, <2>2 DEF LayoutTells, IInv
  <2> QED BY <2>1, <2>2
<1> QED BY <1>1, <1>2

LEMMA LayoutMoves ==
  ASSUME IInv, NEW u \in Uploads, LayoutChange(u)
  PROVE  layout' \in [Uploads -> Layout] /\ \A v \in Uploads : LayoutTells(v)'
<1> DEFINE old == layout[u]
<1>1. old \in Layout /\ RowTells(old)
  BY LayoutRow DEF RowTells, LayoutTells
<1>2. ASSUME NEW c \in Configs, Revises(u, c)
      PROVE  layout' \in [Uploads -> Layout] /\ \A v \in Uploads : LayoutTells(v)'
  <2> DEFINE l == [old EXCEPT !.status = "PROCESSING", !.settings = c, !.approval = None]
  <2>1. layout' = [layout EXCEPT ![u] = l]
    BY <1>2 DEF Revises
  <2> HIDE DEF old
  <2>2. /\ l \in Layout /\ l.status = "PROCESSING" /\ l.settings = c /\ l.approval = None
    BY <1>1 DEF Layout, LayoutStatus
  <2> HIDE DEF l
  <2>3. c # None
    BY OrderingAssumption
  <2> QED BY <2>1, <2>2, <2>3, LayoutSet DEF RowTells
<1>3. CASE Produces(u)
  <2>1. PICK s \in {"AWAITING_APPROVAL", "MANUAL_REVIEW_REQUIRED"} :
          layout' = [layout EXCEPT ![u].status = s,
                       ![u].made = @ \cup {layout[u].settings},
                       ![u].artifact = layout[u].settings]
    BY <1>3 DEF Produces
  <2> DEFINE l == [old EXCEPT !.status = s, !.made = @ \cup {old.settings},
                              !.artifact = old.settings]
  <2>2. layout' = [layout EXCEPT ![u] = l]
    BY <2>1
  <2>3. old.status = "PROCESSING" /\ old.settings # None
    BY <1>1, <1>3 DEF Produces, RowTells
  <2> HIDE DEF old
  <2>4. /\ l \in Layout /\ l.status = s /\ l.artifact = old.settings
        /\ l.approval = old.approval
    BY <1>1, <2>3 DEF Layout, LayoutStatus
  <2> HIDE DEF l
  <2>5. RowTells(l)
    BY <1>1, <2>3, <2>4 DEF RowTells
  <2> QED BY <2>2, <2>4, <2>5, LayoutSet
<1>4. CASE Fails(u)
  <2> DEFINE l == [old EXCEPT !.status = "QUALITY_CHECK_FAILED", !.approval = None]
  <2>1. layout' = [layout EXCEPT ![u] = l]
    BY <1>4 DEF Fails
  <2> HIDE DEF old
  <2>2. l \in Layout /\ l.status = "QUALITY_CHECK_FAILED" /\ l.approval = None
    BY <1>1 DEF Layout, LayoutStatus
  <2> HIDE DEF l
  <2> QED BY <2>1, <2>2, LayoutSet DEF RowTells
<1>5. CASE Reviewed(u)
  <2>1. PICK s \in {"AWAITING_APPROVAL", "QUALITY_CHECK_FAILED"} :
          layout' = [layout EXCEPT ![u].status = s]
    BY <1>5 DEF Reviewed
  <2> DEFINE l == [old EXCEPT !.status = s]
  <2>2. layout' = [layout EXCEPT ![u] = l] /\ old.status = "MANUAL_REVIEW_REQUIRED"
    BY <1>5, <2>1 DEF Reviewed
  <2> HIDE DEF old
  <2>3. /\ l \in Layout /\ l.status = s /\ l.artifact = old.artifact
        /\ l.approval = old.approval
    BY <1>1 DEF Layout, LayoutStatus
  <2> HIDE DEF l
  <2>4. RowTells(l)
    BY <1>1, <2>2, <2>3 DEF RowTells
  <2> QED BY <2>2, <2>3, <2>4, LayoutSet
<1>6. CASE Approves(u)
  <2> DEFINE l == [old EXCEPT !.status = "APPROVED", !.approval = old.artifact]
  <2>1. layout' = [layout EXCEPT ![u] = l] /\ old.status = "AWAITING_APPROVAL"
    BY <1>6 DEF Approves
  <2> HIDE DEF old
  <2>2. /\ l \in Layout /\ l.status = "APPROVED" /\ l.artifact = old.artifact
        /\ l.approval = old.artifact
    BY <1>1 DEF Layout, LayoutStatus
  <2> HIDE DEF l
  <2>3. RowTells(l)
    BY <1>1, <2>1, <2>2 DEF RowTells
  <2> QED BY <2>1, <2>2, <2>3, LayoutSet
<1> QED BY <1>2, <1>3, <1>4, <1>5, <1>6 DEF LayoutChange

-----------------------------------------------------------------------------
(* The drafts.                                                               *)

\* What DraftTells says of a row.
Linked(row) ==
  /\ row.linked => row.upload # None
  /\ row.approval # None => row.linked

LEMMA DraftRow ==
  ASSUME IInv, NEW d \in Drafts
  PROVE  /\ draft[d] \in Draft /\ Linked(draft[d]) /\ DraftTells(d)
         /\ quote[d] \in Quote /\ request[d] \in Request
         /\ draft[d].linked => draft[d].upload \in Uploads
BY DEF IInv, TypeOK, DraftTells, Linked, Draft

LEMMA BasketRow ==
  ASSUME IInv, NEW b \in Baskets
  PROVE  /\ basket[b] \in Basket /\ frozen[b] \in BasketQuote
         /\ basket[b].items \in BoundedSeq(Drafts, MaxItems)
         /\ \A i \in DOMAIN basket[b].items : basket[b].items[i] \in Members(b)
         /\ Members(b) \subseteq Drafts
         /\ QuoteTells(b)
<1>1. basket[b] \in Basket /\ frozen[b] \in BasketQuote /\ QuoteTells(b)
  BY DEF IInv, TypeOK
<1>2. basket[b].items \in BoundedSeq(Drafts, MaxItems)
  BY <1>1 DEF Basket
<1>3. basket[b].items \in Seq(Drafts)
  BY <1>2, BoundedIsSeq
<1>4. Members(b) \subseteq Drafts
  BY <1>3, RangeOfSeq DEF Members
<1> QED BY <1>1, <1>2, <1>4 DEF Members, Range

\* A quote stays that froze no draft that changes, of a basket that does not.
LEMMA QuotesKept ==
  ASSUME IInv,
         \A b \in Baskets :
           \/ frozen'[b] = NoBasketQuote
           \/ /\ frozen'[b] = frozen[b] /\ basket'[b] = basket[b]
              /\ \A d \in Members(b) : draft'[d].config = draft[d].config
  PROVE  \A b \in Baskets : QuoteTells(b)'
<1> SUFFICES ASSUME NEW b \in Baskets, frozen'[b] # NoBasketQuote
             PROVE  QuoteTells(b)'
  BY DEF QuoteTells
<1>1. /\ frozen'[b] = frozen[b] /\ basket'[b] = basket[b]
      /\ \A d \in Members(b) : draft'[d].config = draft[d].config
  OBVIOUS
<1>2. QuoteTells(b) /\ \A i \in DOMAIN basket[b].items : basket[b].items[i] \in Members(b)
  BY BasketRow
<1> QED BY <1>1, <1>2 DEF QuoteTells

LEMMA WithoutTells ==
  ASSUME IInv, NEW ds, frozen' = BasketQuotesWithout(ds)
  PROVE  /\ frozen' \in [Baskets -> BasketQuote]
         /\ \A b \in Baskets : \/ frozen'[b] = NoBasketQuote
                               \/ frozen'[b] = frozen[b] /\ Members(b) \cap ds = {}
<1>1. \A b \in Baskets : frozen[b] \in BasketQuote
  BY BasketRow
<1>2. NoBasketQuote \in BasketQuote
  BY EmptyIsBounded DEF NoBasketQuote, BasketQuote
<1> QED BY <1>1, <1>2 DEF BasketQuotesWithout, Members

\* One draft is written: its commands and the basket quotes of it are overtaken.
LEMMA DraftSet ==
  ASSUME IInv, NEW d \in Drafts, NEW row \in Draft, Linked(row), NEW q \in Quote,
         draft' = [draft EXCEPT ![d] = row], quote' = [quote EXCEPT ![d] = q],
         request' = Overtaken(d), frozen' = BasketQuotesWithout({d}),
         UNCHANGED <<layout, basket, orders>>
  PROVE  IInv'
<1>1. /\ draft' \in [Drafts -> Draft] /\ draft'[d] = row
      /\ \A e \in Drafts \ {d} : draft'[e] = draft[e]
  BY DEF IInv, TypeOK
<1>2. NoRequest \in Request /\ NoRequest.kind = "NONE"
  BY DEF NoRequest, Request
<1>3. /\ request' \in [Drafts -> Request] /\ request'[d] = NoRequest
      /\ \A e \in Drafts \ {d} : request'[e] = request[e]
  BY <1>2 DEF IInv, TypeOK, Overtaken
<1>4. frozen' \in [Baskets -> BasketQuote]
  BY WithoutTells
<1>5. TypeOK'
  BY <1>1, <1>3, <1>4 DEF IInv, TypeOK
<1>6. ASSUME NEW e \in Drafts PROVE DraftTells(e)'
  <2>1. CASE e = d
    BY <1>1, <1>2, <1>3, <2>1 DEF DraftTells, Linked
  <2>2. CASE e # d
    BY <1>1, <1>3, <2>2 DEF DraftTells, IInv
  <2> QED BY <2>1, <2>2
<1>7. \A b \in Baskets : QuoteTells(b)'
  <2>1. ASSUME NEW b \in Baskets, frozen'[b] # NoBasketQuote
        PROVE  /\ frozen'[b] = frozen[b] /\ basket'[b] = basket[b]
               /\ \A e \in Members(b) : draft'[e].config = draft[e].config
    BY <1>1, <2>1, WithoutTells, BasketRow
  <2> QED BY <2>1, QuotesKept
<1>8. (\A u \in Uploads : LayoutTells(u)') /\ (\A o \in orders' : Shown(o))
  BY DEF IInv, LayoutTells
<1> QED BY <1>5, <1>6, <1>7, <1>8 DEF IInv, Shown

LEMMA WritesKeeps ==
  ASSUME IInv, NEW d \in Drafts, NEW row \in Draft, Linked(row), Writes(d, row)
  PROVE  IInv'
<1>1. NoQuote \in Quote
  BY DEF NoQuote, Quote
<1> QED BY <1>1, DraftSet DEF Writes

LEMMA StartTyped ==
  ASSUME NEW c \in Configs, NEW p \in Preference
  PROVE  Start(c, p) \in Draft /\ Linked(Start(c, p))
BY DEF Start, Draft, DraftStatus, Linked

\* The commands that write the draft in one transaction.
LEMMA FileCommands ==
  ASSUME IInv, NEW d \in Drafts,
         \/ \E c \in Configs : CreateDraft(d, c) \/ UpdateDraft(d, c)
         \/ \E u \in Uploads : LinkUpload(d, u) \/ StartUpload(d, u)
         \/ LinkLayout(d) \/ SyncDraft(d)
  PROVE  IInv'
<1> DEFINE old == draft[d]
<1>1. old \in Draft /\ Linked(old)
  BY DraftRow
<1>2. ASSUME NEW c \in Configs, CreateDraft(d, c) PROVE IInv'
  BY <1>2, StartTyped, WritesKeeps DEF CreateDraft, Preference
<1>3. ASSUME NEW c \in Configs, UpdateDraft(d, c) PROVE IInv'
  <2> DEFINE new == [old EXCEPT !.config = c, !.linked = FALSE, !.approval = None,
                                !.status = "OPEN"]
  <2>1. Writes(d, new)
    BY <1>3 DEF UpdateDraft
  <2> HIDE DEF old
  <2>2. new \in Draft /\ Linked(new)
    BY <1>1 DEF Draft, DraftStatus, Linked
  <2> HIDE DEF new
  <2> QED BY <2>1, <2>2, WritesKeeps
<1>4. ASSUME NEW u \in Uploads, LinkUpload(d, u) PROVE IInv'
  <2> DEFINE new == [old EXCEPT !.upload = u, !.linked = FALSE, !.approval = None,
                                !.status = "OPEN"]
  <2>1. Writes(d, new)
    BY <1>4 DEF LinkUpload
  <2> HIDE DEF old
  <2>2. new \in Draft /\ Linked(new)
    BY <1>1 DEF Draft, DraftStatus, Linked
  <2> HIDE DEF new
  <2> QED BY <2>1, <2>2, WritesKeeps
<1>5. ASSUME NEW u \in Uploads, StartUpload(d, u) PROVE IInv'
  <2> DEFINE new == [old EXCEPT !.upload = u, !.status = "OPEN"]
  <2>1. Writes(d, new) /\ old.upload = None
    BY <1>5 DEF StartUpload
  <2> HIDE DEF old
  <2>2. new \in Draft /\ Linked(new)
    BY <1>1, <2>1, OrderingAssumption DEF Draft, DraftStatus, Linked
  <2> HIDE DEF new
  <2> QED BY <2>1, <2>2, WritesKeeps
<1>6. CASE LinkLayout(d)
  <2> DEFINE new == [old EXCEPT !.linked = TRUE, !.status = "OPEN"]
  <2>1. Writes(d, new) /\ old.upload # None
    BY <1>6 DEF LinkLayout, HasLayout
  <2> HIDE DEF old
  <2>2. new \in Draft /\ Linked(new)
    BY <1>1, <2>1 DEF Draft, DraftStatus, Linked
  <2> HIDE DEF new
  <2> QED BY <2>1, <2>2, WritesKeeps
<1>7. CASE SyncDraft(d)
  <2> DEFINE own == OwnLayout(d)
             status == Synced(own)
             approval == own.approval
             new == [old EXCEPT !.status = status, !.approval = approval]
  <2>1. Writes(d, new) /\ old.linked
    BY <1>7 DEF SyncDraft
  <2>2. status \in DraftStatus
    BY DEF Synced, DraftStatus
  <2>3. approval \in Configs \cup {None}
    <3>1. draft[d].upload \in Uploads
      BY <1>1, <2>1, DraftRow
    <3> QED BY <3>1, LayoutRow DEF OwnLayout, Layout
  <2> HIDE DEF old, own, status, approval
  <2>4. new \in Draft /\ Linked(new)
    BY <1>1, <2>1, <2>2, <2>3 DEF Draft, Linked
  <2> HIDE DEF new
  <2> QED BY <2>1, <2>4, WritesKeeps
<1> QED BY <1>2, <1>3, <1>4, <1>5, <1>6, <1>7

LEMMA OtherCommands ==
  ASSUME IInv, NEW d \in Drafts,
         \/ SetFulfillmentPreference(d) \/ ClearFulfillmentPreference(d)
         \/ SetPreference(d) \/ Cancel(d) \/ ExpireStaleDraft(d)
  PROVE  IInv'
<1> DEFINE old == draft[d]
<1>1. old \in Draft /\ Linked(old)
  BY DraftRow
<1>2. PICK preference \in Preference, status \in DraftStatus :
        Writes(d, [old EXCEPT !.preference = preference, !.status = status])
  <2>1. old.preference \in Preference /\ old.status \in DraftStatus
    BY <1>1 DEF Draft
  <2>2. [old EXCEPT !.preference = old.preference] = old
    BY <1>1 DEF Draft
  <2>3. CASE SetFulfillmentPreference(d)
    BY <2>3 DEF SetFulfillmentPreference, DraftStatus, Preference
  <2>4. CASE ClearFulfillmentPreference(d)
    <3> DEFINE preference == IF old.preference = "FREE" THEN old.preference ELSE "REQUIRED"
    <3>1. preference \in Preference /\ "READY_FOR_QUOTE" \in DraftStatus
      BY DEF Preference, DraftStatus
    <3>2. Writes(d, [old EXCEPT !.preference = preference, !.status = "READY_FOR_QUOTE"])
      BY <2>4 DEF ClearFulfillmentPreference
    <3> HIDE DEF preference
    <3> QED BY <3>1, <3>2
  <2>5. ASSUME NEW status \in DraftStatus, Writes(d, [old EXCEPT !.status = status])
        PROVE  \E p \in Preference : Writes(d, [old EXCEPT !.preference = p, !.status = status])
    <3>1. [old EXCEPT !.preference = old.preference, !.status = status] = [old EXCEPT !.status = status]
      BY <2>2
    <3> QED BY <2>1, <2>5, <3>1
  <2>6. CASE SetPreference(d)
    <3> DEFINE status == IF draft[d].approval = None THEN old.status ELSE "READY_FOR_QUOTE"
    <3>1. status \in DraftStatus
      BY <2>1 DEF DraftStatus
    <3>2. Writes(d, [old EXCEPT !.status = status])
      BY <2>6 DEF SetPreference
    <3> HIDE DEF status
    <3> QED BY <2>5, <3>1, <3>2
  <2>7. CASE Cancel(d) \/ ExpireStaleDraft(d)
    <3>1. Writes(d, [old EXCEPT !.status = "CLOSED"]) /\ "CLOSED" \in DraftStatus
      BY <2>7 DEF Cancel, ExpireStaleDraft, DraftStatus
    <3> QED BY <2>5, <3>1
  <2> QED BY <2>3, <2>4, <2>6, <2>7
<1> DEFINE new == [old EXCEPT !.preference = preference, !.status = status]
<1> HIDE DEF old
<1>3. new \in Draft /\ Linked(new)
  BY <1>1 DEF Draft, Linked
<1> HIDE DEF new
<1> QED BY <1>2, <1>3, WritesKeeps DEF new

-----------------------------------------------------------------------------
(* Commands of two transactions, and what becomes of the layout meanwhile.   *)

LEMMA LayoutFree ==
  ASSUME IInv, layout' \in [Uploads -> Layout], \A u \in Uploads : LayoutTells(u)',
         UNCHANGED <<draftVars, basketVars, orders>>
  PROVE  IInv'
BY DEF IInv, TypeOK, draftVars, basketVars, DraftTells, QuoteTells

LEMMA LayoutChangesKeeps == ASSUME IInv, LayoutChanges PROVE IInv'
BY LayoutMoves, LayoutFree DEF LayoutChanges

\* The first transaction: the request is about the draft as it is.
LEMMA RequestsKeeps ==
  ASSUME IInv, NEW d \in Drafts, NEW kind \in {"LINK", "APPROVE"},
         NEW a \in Configs \cup {None}, Requests(d, kind, a),
         draft[d].upload # None, kind = "APPROVE" => draft[d].linked,
         layout' \in [Uploads -> Layout], \A u \in Uploads : LayoutTells(u)'
  PROVE  IInv'
<1> DEFINE new == [kind |-> kind, approval |-> a]
<1>1. new \in Request /\ new.kind = kind
  BY DEF Request
<1>2. /\ request' = [request EXCEPT ![d] = new]
      /\ UNCHANGED <<draft, quote, basket, frozen, orders>>
  BY DEF Requests, basketVars
<1> HIDE DEF new
<1>3. /\ request' \in [Drafts -> Request] /\ request'[d] = new
      /\ \A e \in Drafts \ {d} : request'[e] = request[e]
  BY <1>1, <1>2 DEF IInv, TypeOK
<1>4. ASSUME NEW e \in Drafts PROVE DraftTells(e)'
  <2>1. CASE e = d
    BY <1>1, <1>2, <1>3, <2>1, DraftRow DEF DraftTells
  <2>2. CASE e # d
    BY <1>2, <1>3, <2>2 DEF DraftTells, IInv
  <2> QED BY <2>1, <2>2
<1>5. TypeOK' /\ \A b \in Baskets : QuoteTells(b)'
  BY <1>2, <1>3 DEF IInv, TypeOK, QuoteTells
<1> QED BY <1>2, <1>4, <1>5 DEF IInv

LEMMA CreateLayoutKeeps == ASSUME IInv, NEW d \in Drafts, CreateLayout(d) PROVE IInv'
<1>1. /\ draft[d].upload \in Uploads /\ draft[d].upload # None /\ draft[d].config \in Configs
      /\ Requests(d, "LINK", None)
  BY DraftRow DEF CreateLayout, Draft
<1>2. layout' \in [Uploads -> Layout] /\ \A u \in Uploads : LayoutTells(u)'
  <2>1. CASE Revises(draft[d].upload, draft[d].config)
    BY <1>1, <2>1, LayoutMoves DEF LayoutChange
  <2>2. CASE UNCHANGED layout
    BY <2>2 DEF IInv, TypeOK, LayoutTells
  <2> QED BY <2>1, <2>2 DEF CreateLayout
<1> QED BY <1>1, <1>2, RequestsKeeps

LEMMA ApproveKeeps == ASSUME IInv, NEW d \in Drafts, Approve(d) PROVE IInv'
<1> DEFINE a == OwnLayout(d).artifact
<1>1. /\ draft[d].linked /\ draft[d].upload \in Uploads /\ draft[d].upload # None
      /\ Requests(d, "APPROVE", a) /\ Approves(draft[d].upload)
  BY DraftRow, OrderingAssumption DEF Approve
<1>2. a \in Configs \cup {None}
  BY <1>1, LayoutRow DEF OwnLayout, Layout
<1>3. layout' \in [Uploads -> Layout] /\ \A u \in Uploads : LayoutTells(u)'
  BY <1>1, LayoutMoves DEF LayoutChange
<1> QED BY <1>1, <1>2, <1>3, RequestsKeeps

\* The second transaction: the draft is still the one the request was about.
LEMMA FinishKeeps == ASSUME IInv, NEW d \in Drafts, Finish(d) PROVE IInv'
<1> DEFINE old == draft[d]
           a == request[d].approval
           link == [old EXCEPT !.linked = TRUE, !.status = "OPEN"]
           approve == [old EXCEPT !.approval = a, !.status = "READY_FOR_QUOTE"]
           new == IF request[d].kind = "LINK" THEN link ELSE approve
<1>1. /\ old \in Draft /\ Linked(old) /\ a \in Configs \cup {None}
      /\ request[d].kind \in {"LINK", "APPROVE"} /\ old.upload # None
      /\ request[d].kind = "APPROVE" => old.linked
  BY DraftRow DEF Finish, DraftTells, Request
<1>2. /\ draft' = [draft EXCEPT ![d] = new] /\ quote' = [quote EXCEPT ![d] = NoQuote]
      /\ request' = Overtaken(d) /\ frozen' = BasketQuotesWithout({d})
      /\ UNCHANGED <<layout, basket, orders>>
  BY DEF Finish, Overtaken
<1> HIDE DEF old, a
<1>3. link \in Draft /\ Linked(link)
  BY <1>1 DEF Draft, DraftStatus, Linked
<1>4. approve \in Draft /\ (request[d].kind = "APPROVE" => Linked(approve))
  BY <1>1 DEF Draft, DraftStatus, Linked
<1> HIDE DEF link, approve
<1>5. new \in Draft /\ Linked(new)
  BY <1>1, <1>3, <1>4
<1>6. NoQuote \in Quote
  BY DEF NoQuote, Quote
<1> HIDE DEF new
<1> QED BY <1>2, <1>5, <1>6, DraftSet

LEMMA AbandonKeeps == ASSUME IInv, NEW d \in Drafts, Abandon(d) PROVE IInv'
<1>1. NoRequest \in Request /\ NoRequest.kind = "NONE"
  BY DEF NoRequest, Request
<1>2. /\ request' \in [Drafts -> Request] /\ request'[d] = NoRequest
      /\ \A e \in Drafts \ {d} : request'[e] = request[e]
      /\ UNCHANGED <<layout, draft, quote, basket, frozen, orders>>
  BY <1>1 DEF IInv, TypeOK, Abandon, basketVars
<1>3. ASSUME NEW e \in Drafts PROVE DraftTells(e)'
  <2>1. CASE e = d
    BY <1>1, <1>2, <2>1, DraftRow DEF DraftTells
  <2>2. CASE e # d
    BY <1>2, <2>2 DEF DraftTells, IInv
  <2> QED BY <2>1, <2>2
<1>4. TypeOK' /\ \A b \in Baskets : QuoteTells(b)'
  BY <1>2 DEF IInv, TypeOK, QuoteTells
<1>5. \A u \in Uploads : LayoutTells(u)'
  BY <1>2 DEF IInv, LayoutTells
<1> QED BY <1>2, <1>3, <1>4, <1>5 DEF IInv

-----------------------------------------------------------------------------
(* Quote and checkout of one draft.                                          *)

LEMMA GetQuoteKeeps == ASSUME IInv, NEW d \in Drafts, GetQuote(d) PROVE IInv'
<1> DEFINE old == draft[d]
           new == [old EXCEPT !.status = "QUOTED"]
           q == [config |-> old.config, approval |-> old.approval]
<1>1. old \in Draft /\ Linked(old)
  BY DraftRow
<1>2. /\ draft' = [draft EXCEPT ![d] = new] /\ quote' = [quote EXCEPT ![d] = q]
      /\ request' = Overtaken(d) /\ frozen' = BasketQuotesWithout({d})
      /\ UNCHANGED <<layout, basket, orders>>
  BY DEF GetQuote
<1> HIDE DEF old
<1>3. new \in Draft /\ Linked(new) /\ q \in Quote
  BY <1>1 DEF Draft, DraftStatus, Linked, Quote
<1> HIDE DEF new, q
<1> QED BY <1>2, <1>3, DraftSet

LEMMA ClosedTyped ==
  ASSUME NEW row \in Draft, Linked(row)
  PROVE  /\ [row EXCEPT !.status = "CLOSED", !.ordered = TRUE] \in Draft
         /\ Linked([row EXCEPT !.status = "CLOSED", !.ordered = TRUE])
         /\ [row EXCEPT !.status = "CLOSED", !.ordered = TRUE].config = row.config
BY DEF Draft, DraftStatus, Linked

\* The drafts of an order are closed; the quotes that froze one of them go.
LEMMA CheckedOutKeeps ==
  ASSUME IInv, NEW ds \in SUBSET Drafts, CheckedOut(ds), UNCHANGED layout,
         basket' \in [Baskets -> Basket],
         \A b \in Baskets : basket'[b] = basket[b] \/ Members(b) \cap ds # {},
         orders' \subseteq Order, \A o \in orders' : Shown(o)
  PROVE  IInv'
<1>1. /\ draft' \in [Drafts -> Draft]
      /\ \A d \in Drafts : Linked(draft'[d]) /\ draft'[d].config = draft[d].config
  <2> DEFINE closed(d) == [draft[d] EXCEPT !.status = "CLOSED", !.ordered = TRUE]
             new(d) == IF d \in ds THEN closed(d) ELSE draft[d]
  <2>1. \A d \in Drafts : /\ closed(d) \in Draft /\ Linked(closed(d))
                          /\ closed(d).config = draft[d].config
    BY ClosedTyped, DraftRow
  <2>2. draft' = [d \in Drafts |-> new(d)]
    BY DEF CheckedOut
  <2> HIDE DEF closed
  <2>3. \A d \in Drafts : /\ new(d) \in Draft /\ Linked(new(d))
                          /\ new(d).config = draft[d].config
    BY <2>1, DraftRow
  <2> HIDE DEF new
  <2> QED BY <2>2, <2>3
<1>2. NoQuote \in Quote /\ NoRequest \in Request /\ NoRequest.kind = "NONE"
  BY DEF NoQuote, Quote, NoRequest, Request
<1>3. /\ quote' \in [Drafts -> Quote] /\ request' \in [Drafts -> Request]
      /\ \A d \in Drafts : \/ request'[d] = NoRequest
                           \/ request'[d] = request[d] /\ draft'[d] = draft[d]
  BY <1>2, DraftRow DEF CheckedOut
<1>4. frozen' \in [Baskets -> BasketQuote]
  BY WithoutTells DEF CheckedOut
<1>5. TypeOK'
  BY <1>1, <1>3, <1>4 DEF IInv, TypeOK
<1>6. ASSUME NEW d \in Drafts PROVE DraftTells(d)'
  <2>1. CASE request'[d] = NoRequest
    BY <1>1, <1>2, <2>1 DEF DraftTells, Linked
  <2>2. CASE request'[d] = request[d] /\ draft'[d] = draft[d]
    BY <2>2 DEF IInv, DraftTells
  <2> QED BY <1>3, <2>1, <2>2
<1>7. \A b \in Baskets : QuoteTells(b)'
  <2>1. ASSUME NEW b \in Baskets, frozen'[b] # NoBasketQuote
        PROVE  /\ frozen'[b] = frozen[b] /\ basket'[b] = basket[b]
               /\ \A e \in Members(b) : draft'[e].config = draft[e].config
    BY <1>1, <2>1, WithoutTells, BasketRow DEF CheckedOut
  <2> QED BY <2>1, QuotesKept
<1>8. \A u \in Uploads : LayoutTells(u)'
  BY DEF IInv, LayoutTells
<1> QED BY <1>5, <1>6, <1>7, <1>8 DEF IInv

LEMMA OneIsBounded ==
  ASSUME NEW S, NEW e \in S
  PROVE  /\ <<e>> \in BoundedSeq(S, MaxItems) /\ <<e>>[1] = e
         /\ DOMAIN <<e>> = {1} /\ <<e>> # <<>>
<1>1. <<e>> \in Seq(S) /\ Len(<<e>>) = 1 /\ 1 <= MaxItems
  BY OrderingAssumption
<1>2. <<e>> \in BoundedSeq(S, MaxItems)
  BY <1>1, BoundedIsSeq
<1>3. 1 .. 1 = {1} /\ DOMAIN <<e>> = 1 .. 1 /\ <<e>>[1] = e /\ <<e>> # <<>>
  OBVIOUS
<1> QED BY <1>2, <1>3

\* The layout is approved with the approval of the draft, which is of its artifact.
LEMMA CheckoutKeeps == ASSUME IInv, NEW d \in Drafts, Checkout(d) PROVE IInv'
<1> DEFINE u == draft[d].upload
           l == OwnLayout(d)
           a == l.approval
           c == draft[d].config
           p == quote[d].config
           item == [draft |-> d, upload |-> u, approval |-> a, file |-> l.artifact,
                    config |-> c, priced |-> p]
           order == [by |-> d, upload |-> u, approval |-> a, file |-> l.artifact,
                     items |-> <<item>>]
<1>1. /\ u \in Uploads /\ c \in Configs /\ a \in Configs /\ l.artifact = a /\ p = c
  <2>1. draft[d] \in Draft /\ draft[d].linked /\ draft[d].approval # None
        /\ a = draft[d].approval /\ p = c /\ u \in Uploads
    BY DraftRow DEF Checkout, DraftTells, Recalculated
  <2>2. l.approval # None => l.approval = l.artifact
    BY <2>1, LayoutRow DEF OwnLayout, LayoutTells
  <2> QED BY <2>1, <2>2 DEF Draft
<1>2. /\ orders' = orders \cup {order} /\ CheckedOut({d}) /\ UNCHANGED <<layout, basket>>
  BY DEF Checkout
<1> HIDE DEF u, l, a, c, p
<1>3. /\ item \in Item /\ item.file = item.approval /\ item.config = item.priced
      /\ item.file = a
  BY <1>1 DEF Item
<1> HIDE DEF item
<1>4. /\ <<item>> \in BoundedSeq(Item, MaxItems) /\ <<item>>[1] = item
      /\ DOMAIN <<item>> = {1} /\ <<item>> # <<>>
  BY <1>3, OneIsBounded
<1> DEFINE items == <<item>>
<1> HIDE DEF items
<1>5. order \in Order /\ order.file = a /\ order.approval = a /\ order.items = items
  BY <1>1, <1>4 DEF Order, items
<1> HIDE DEF order
<1>6. Shown(order)
  BY <1>3, <1>4, <1>5 DEF Shown, items
<1>7. orders' \subseteq Order /\ \A o \in orders' : Shown(o)
  BY <1>2, <1>5, <1>6 DEF IInv, TypeOK
<1>8. basket' \in [Baskets -> Basket] /\ {d} \in SUBSET Drafts
  BY <1>2 DEF IInv, TypeOK
<1> QED BY <1>2, <1>7, <1>8, CheckedOutKeeps

LEMMA CheckoutLayoutKeeps == ASSUME IInv, NEW u \in Uploads, CheckoutLayout(u) PROVE IInv'
<1> DEFINE a == layout[u].approval
           f == layout[u].artifact
           order == [by |-> u, upload |-> u, approval |-> a, file |-> f, items |-> <<>>]
<1>1. a \in Configs /\ f = a
  BY LayoutRow DEF CheckoutLayout, LayoutTells, Layout
<1>2. /\ orders' = orders \cup {order}
      /\ UNCHANGED <<layout, draft, quote, request, basket, frozen>>
  BY DEF CheckoutLayout, draftVars, basketVars
<1> HIDE DEF a, f
<1>3. <<>> \in BoundedSeq(Item, MaxItems) /\ DOMAIN <<>> = {}
  BY EmptyIsBounded
<1>4. order \in Order /\ Shown(order)
  BY <1>1, <1>3 DEF Order, Shown
<1> HIDE DEF order
<1> QED BY <1>2, <1>4 DEF IInv, TypeOK, LayoutTells, DraftTells, QuoteTells

-----------------------------------------------------------------------------
(* Baskets.                                                                  *)

LEMMA OnBasketKeeps ==
  ASSUME IInv, OnBasket, basket' \in [Baskets -> Basket],
         frozen' \in [Baskets -> BasketQuote], \A b \in Baskets : QuoteTells(b)'
  PROVE  IInv'
BY DEF IInv, TypeOK, OnBasket, draftVars, LayoutTells, DraftTells

\* A basket that is not QUOTED has no quote that could be used.
LEMMA BasketSet ==
  ASSUME IInv, NEW b \in Baskets, NEW row \in Basket,
         basket' = [basket EXCEPT ![b] = row], OnBasket, UNCHANGED frozen,
         basket[b].status # "QUOTED"
  PROVE  IInv'
<1>1. /\ basket' \in [Baskets -> Basket]
      /\ \A e \in Baskets \ {b} : basket'[e] = basket[e]
  BY DEF IInv, TypeOK
<1>2. frozen[b] = NoBasketQuote
  BY BasketRow DEF QuoteTells
<1>3. UNCHANGED draft
  BY DEF OnBasket, draftVars
<1>4. \A e \in Baskets : QuoteTells(e)'
  BY <1>1, <1>2, <1>3, QuotesKept
<1> QED BY <1>1, <1>4, OnBasketKeeps DEF IInv, TypeOK

LEMMA ItemsSet ==
  ASSUME IInv, NEW b \in Baskets, NEW s \in BoundedSeq(Drafts, MaxItems),
         Mutate(b, [basket[b] EXCEPT !.items = s])
  PROVE  IInv'
<1> DEFINE new == [basket[b] EXCEPT !.items = s]
<1>1. basket[b] \in Basket
  BY BasketRow
<1>2. new \in Basket
  BY <1>1 DEF Basket
<1>3. /\ basket[b].status = "ACTIVE" /\ basket' = [basket EXCEPT ![b] = new]
      /\ OnBasket /\ UNCHANGED frozen
  BY DEF Mutate, Mutable
<1> HIDE DEF new
<1> QED BY <1>2, <1>3, BasketSet

LEMMA ItemCommands ==
  ASSUME IInv, NEW b \in Baskets,
         \/ \E d \in Drafts : AddItem(b, d)
         \/ \E i \in 1 .. MaxItems :
              RemoveItem(b, i) \/ \E n \in 1 .. MaxItems : ReorderItem(b, i, n)
  PROVE  IInv'
<1> DEFINE items == basket[b].items
<1>1. /\ items \in Seq(Drafts) /\ Len(items) <= MaxItems /\ Len(items) \in Nat
      /\ DOMAIN items = 1 .. Len(items) /\ \A i \in 1 .. Len(items) : items[i] \in Drafts
  <2>1. items \in Seq(Drafts) /\ Len(items) <= MaxItems
    BY BasketRow, BoundedIsSeq
  <2> HIDE DEF items
  <2> QED BY <2>1, LenProperties
<1>2. ASSUME NEW d \in Drafts, AddItem(b, d) PROVE IInv'
  <2> DEFINE new == Append(items, d)
  <2>1. Mutate(b, [basket[b] EXCEPT !.items = new]) /\ Len(items) < MaxItems
    BY <1>2 DEF AddItem
  <2> HIDE DEF items
  <2>2. new \in Seq(Drafts) /\ Len(new) <= MaxItems
    BY <1>1, <2>1, AppendProperties, OrderingAssumption
  <2>3. new \in BoundedSeq(Drafts, MaxItems)
    BY <2>2, BoundedIsSeq
  <2> HIDE DEF new
  <2> QED BY <2>1, <2>3, ItemsSet
<1>3. ASSUME NEW i \in 1 .. MaxItems, RemoveItem(b, i) PROVE IInv'
  <2> DEFINE new == RemoveAt(items, i)
  <2>1. Mutate(b, [basket[b] EXCEPT !.items = new]) /\ i \in 1 .. Len(items)
    BY <1>1, <1>3 DEF RemoveItem
  <2> HIDE DEF items
  <2>2. new \in Seq(Drafts) /\ Len(new) <= MaxItems
    BY <1>1, <2>1, RemovedTyped, OrderingAssumption
  <2>3. new \in BoundedSeq(Drafts, MaxItems)
    BY <2>2, BoundedIsSeq
  <2> HIDE DEF new
  <2> QED BY <2>1, <2>3, ItemsSet
<1>4. ASSUME NEW i \in 1 .. MaxItems, NEW n \in 1 .. MaxItems, ReorderItem(b, i, n)
      PROVE  IInv'
  <2> DEFINE rest == RemoveAt(items, i)
             new == InsertAt(rest, n, items[i])
  <2>1. /\ Mutate(b, [basket[b] EXCEPT !.items = new])
        /\ i \in 1 .. Len(items) /\ n \in 1 .. Len(items)
    BY <1>1, <1>4 DEF ReorderItem
  <2> HIDE DEF items
  <2>2. rest \in Seq(Drafts) /\ Len(rest) = Len(items) - 1
    BY <1>1, <2>1, RemovedTyped
  <2>3. n \in 1 .. Len(rest) + 1 /\ items[i] \in Drafts
    BY <1>1, <2>1, <2>2
  <2> HIDE DEF rest
  <2>4. new \in Seq(Drafts) /\ Len(new) = Len(rest) + 1
    BY <2>2, <2>3, InsertedTyped
  <2>5. new \in BoundedSeq(Drafts, MaxItems)
    BY <1>1, <2>2, <2>4, BoundedIsSeq
  <2> HIDE DEF new
  <2> QED BY <2>1, <2>5, ItemsSet
<1> QED BY <1>2, <1>3, <1>4

LEMMA BasketCommands ==
  ASSUME IInv, NEW b \in Baskets, Create(b) \/ SetFulfillment(b) \/ BasketEnds(b)
  PROVE  IInv'
<1> DEFINE old == basket[b]
<1>1. old \in Basket
  BY BasketRow
<1>2. CASE Create(b)
  <2> DEFINE new == [old EXCEPT !.status = "ACTIVE"]
  <2>1. /\ basket' = [basket EXCEPT ![b] = new] /\ OnBasket /\ UNCHANGED frozen
        /\ basket[b].status = "NONE"
    BY <1>2 DEF Create
  <2> HIDE DEF old
  <2>2. new \in Basket
    BY <1>1 DEF Basket
  <2> HIDE DEF new
  <2> QED BY <2>1, <2>2, BasketSet
<1>3. CASE SetFulfillment(b)
  <2> DEFINE new == [old EXCEPT !.chosen = TRUE]
  <2>1. /\ basket' = [basket EXCEPT ![b] = new] /\ OnBasket /\ UNCHANGED frozen
        /\ basket[b].status = "ACTIVE"
    BY <1>3 DEF SetFulfillment, Mutate, Mutable
  <2> HIDE DEF old
  <2>2. new \in Basket
    BY <1>1 DEF Basket
  <2> HIDE DEF new
  <2> QED BY <2>1, <2>2, BasketSet
<1>4. CASE BasketEnds(b)
  <2> DEFINE new == [old EXCEPT !.status = "ENDED"]
  <2>1. /\ basket' = [basket EXCEPT ![b] = new] /\ OnBasket
        /\ frozen' = [frozen EXCEPT ![b] = NoBasketQuote]
    BY <1>4 DEF BasketEnds
  <2> HIDE DEF old
  <2>2. new \in Basket
    BY <1>1 DEF Basket
  <2> HIDE DEF new
  <2>3. /\ basket' \in [Baskets -> Basket]
        /\ \A e \in Baskets \ {b} : basket'[e] = basket[e]
    BY <2>1, <2>2 DEF IInv, TypeOK
  <2>4. NoBasketQuote \in BasketQuote
    BY EmptyIsBounded DEF NoBasketQuote, BasketQuote
  <2>5. /\ frozen' \in [Baskets -> BasketQuote] /\ frozen'[b] = NoBasketQuote
        /\ \A e \in Baskets \ {b} : frozen'[e] = frozen[e]
    BY <2>1, <2>4 DEF IInv, TypeOK
  <2>6. \A e \in Baskets : QuoteTells(e)'
    BY <2>1, <2>3, <2>5, QuotesKept DEF OnBasket, draftVars
  <2> QED BY <2>1, <2>3, <2>5, <2>6, OnBasketKeeps
<1> QED BY <1>2, <1>3, <1>4

\* A draft whose approval is current has the approval of its layout's artifact.
LEMMA CurrentTells ==
  ASSUME IInv, NEW d \in Drafts, ApprovalIsCurrent(d)
  PROVE  /\ draft[d].approval \in Configs /\ draft[d].config \in Configs
         /\ OwnLayout(d).artifact = draft[d].approval
<1>1. draft[d] \in Draft /\ draft[d].upload \in Uploads
  BY DraftRow DEF ApprovalIsCurrent
<1>2. /\ OwnLayout(d) \in Layout
      /\ OwnLayout(d).approval # None => OwnLayout(d).approval = OwnLayout(d).artifact
  BY <1>1, LayoutRow DEF OwnLayout, LayoutTells
<1> QED BY <1>1, <1>2 DEF ApprovalIsCurrent, Draft, Layout

LEMMA QuoteBasketKeeps == ASSUME IInv, NEW b \in Baskets, QuoteBasket(b) PROVE IInv'
<1> DEFINE items == basket[b].items
           line(d) == [approval |-> draft[d].approval, file |-> OwnLayout(d).artifact,
                       config |-> draft[d].config]
           lines == [i \in DOMAIN items |-> line(items[i])]
           new == [basket[b] EXCEPT !.status = "QUOTED"]
<1>1. /\ items \in BoundedSeq(Drafts, MaxItems)
      /\ \A i \in DOMAIN items : items[i] \in Members(b)
      /\ Members(b) \subseteq Drafts
  BY BasketRow
<1>2. \A d \in Members(b) : ApprovalIsCurrent(d)
  BY DEF QuoteBasket
<1>3. \A d \in Members(b) : /\ line(d) \in Line /\ line(d).file = line(d).approval
                            /\ line(d).config = draft[d].config
  <2> SUFFICES ASSUME NEW d \in Members(b)
               PROVE  /\ line(d) \in Line /\ line(d).file = line(d).approval
                      /\ line(d).config = draft[d].config
    OBVIOUS
  <2>1. /\ draft[d].approval \in Configs /\ draft[d].config \in Configs
        /\ OwnLayout(d).artifact = draft[d].approval
    BY <1>1, <1>2, CurrentTells
  <2> QED BY <2>1 DEF Line
<1>4. frozen' = [frozen EXCEPT ![b] = lines] /\ basket' = [basket EXCEPT ![b] = new]
      /\ OnBasket /\ UNCHANGED draft
  BY DEF QuoteBasket, OnBasket, draftVars
<1>5. new \in Basket /\ new.status = "QUOTED" /\ new.items = items
  BY BasketRow DEF Basket
<1> HIDE DEF line, items, new
<1>6. lines \in [DOMAIN items -> Line]
  BY <1>1, <1>3
<1>7. lines \in BasketQuote
  BY <1>1, <1>6, SameLength DEF BasketQuote
<1>8. /\ DOMAIN lines = DOMAIN items
      /\ \A i \in DOMAIN lines : /\ lines[i].file = lines[i].approval
                                 /\ lines[i].config = draft[items[i]].config
  BY <1>1, <1>3
<1> HIDE DEF lines
<1>9. /\ basket' \in [Baskets -> Basket] /\ basket'[b] = new
      /\ \A e \in Baskets \ {b} : basket'[e] = basket[e]
  BY <1>4, <1>5 DEF IInv, TypeOK
<1>10. /\ frozen' \in [Baskets -> BasketQuote] /\ frozen'[b] = lines
       /\ \A e \in Baskets \ {b} : frozen'[e] = frozen[e]
  BY <1>4, <1>7 DEF IInv, TypeOK
<1>11. ASSUME NEW e \in Baskets PROVE QuoteTells(e)'
  <2>1. CASE e = b
    BY <1>4, <1>5, <1>8, <1>9, <1>10, <2>1 DEF QuoteTells
  <2>2. CASE e # b
    BY <1>4, <1>9, <1>10, <2>2, BasketRow DEF QuoteTells
  <2> QED BY <2>1, <2>2
<1> QED BY <1>4, <1>9, <1>10, <1>11, OnBasketKeeps

\* Every line still holds: it froze the draft's configuration, and the file of
\* the approval that the draft and its layout still have.
LEMMA CheckoutBasketKeeps == ASSUME IInv, NEW b \in Baskets, CheckoutBasket(b) PROVE IInv'
<1> DEFINE ds == basket[b].items
           lines == frozen[b]
           item(i) == [draft |-> ds[i], upload |-> draft[ds[i]].upload,
                       approval |-> lines[i].approval, file |-> lines[i].file,
                       config |-> draft[ds[i]].config, priced |-> lines[i].config]
           items == [i \in DOMAIN ds |-> item(i)]
           u == draft[ds[1]].upload
           a == draft[ds[1]].approval
           f == OwnLayout(ds[1]).artifact
           order == [by |-> b, upload |-> u, approval |-> a, file |-> f, items |-> items]
           new == [basket[b] EXCEPT !.status = "CHECKED_OUT"]
<1>1. /\ ds \in BoundedSeq(Drafts, MaxItems) /\ Members(b) \subseteq Drafts
      /\ \A i \in DOMAIN ds : ds[i] \in Members(b) /\ ds[i] \in Drafts
  BY BasketRow
<1>2. /\ orders' = orders \cup {order} /\ CheckedOut(Members(b))
      /\ basket' = [basket EXCEPT ![b] = new] /\ UNCHANGED layout
  BY DEF CheckoutBasket
<1>3. /\ lines # NoBasketQuote /\ DOMAIN lines = DOMAIN ds
      /\ \A i \in DOMAIN ds : /\ LineHolds(b, i) /\ lines[i].file = lines[i].approval
                              /\ lines[i].config = draft[ds[i]].config
  BY BasketRow DEF CheckoutBasket, QuoteTells
<1>4. new \in Basket
  BY BasketRow DEF Basket
<1>5. \A i \in DOMAIN ds : lines[i] \in Line
  <2>1. PICK n \in 0 .. MaxItems : lines \in [1 .. n -> Line]
    BY BasketRow DEF BasketQuote, BoundedSeq, SeqOf
  <2> QED BY <1>3, <2>1
<1>6. \A i \in DOMAIN ds : /\ draft[ds[i]] \in Draft /\ draft[ds[i]].upload \in Uploads
                           /\ draft[ds[i]].approval = lines[i].approval
                           /\ OwnLayout(ds[i]).artifact = lines[i].file
  BY <1>1, <1>3, DraftRow DEF LineHolds
<1>7. \A i \in DOMAIN ds : /\ item(i) \in Item /\ item(i).file = item(i).approval
                           /\ item(i).config = item(i).priced
                           /\ item(i).file = lines[i].file
  <2> SUFFICES ASSUME NEW i \in DOMAIN ds
               PROVE  /\ item(i) \in Item /\ item(i).file = item(i).approval
                      /\ item(i).config = item(i).priced
                      /\ item(i).file = lines[i].file
    OBVIOUS
  <2>1. /\ ds[i] \in Drafts /\ draft[ds[i]].upload \in Uploads
        /\ lines[i].approval \in Configs /\ lines[i].file \in Configs
        /\ draft[ds[i]].config \in Configs /\ lines[i].config \in Configs
        /\ lines[i].file = lines[i].approval /\ lines[i].config = draft[ds[i]].config
    BY <1>1, <1>3, <1>5, <1>6 DEF Line
  <2> QED BY <2>1 DEF Item
<1>8. 1 \in DOMAIN ds
  <2>1. PICK n \in 0 .. MaxItems : ds \in [1 .. n -> Drafts]
    BY <1>1 DEF BoundedSeq, SeqOf
  <2>2. CASE n = 0
    <3>1. DOMAIN lines = {}
      BY <1>3, <2>1, <2>2
    <3>2. lines \in Seq(Line)
      BY BasketRow, BoundedIsSeq DEF BasketQuote
    <3> HIDE DEF lines
    <3>3. Len(lines) \in Nat /\ DOMAIN lines = 1 .. Len(lines)
      BY <3>2, LenProperties
    <3>4. Len(lines) = 0
      <4>1. CASE Len(lines) >= 1
        BY <3>1, <3>3, <4>1
      <4> QED BY <3>3, <4>1
    <3>5. lines = <<>>
      BY <3>2, <3>4, EmptySeq, SeqEqual
    <3> QED BY <1>3, <3>5 DEF NoBasketQuote
  <2>3. CASE n # 0
    BY <2>1, <2>3, OrderingAssumption
  <2> QED BY <2>2, <2>3
<1>9. /\ u \in Uploads /\ f = a /\ f \in Configs /\ a \in Configs /\ f = item(1).file
  BY <1>3, <1>5, <1>6, <1>7, <1>8 DEF Line
<1> HIDE DEF ds, lines, item, u, a, f, new
<1>10. /\ items \in [DOMAIN ds -> Item] /\ items[1] = item(1) /\ DOMAIN items = DOMAIN ds
  BY <1>7, <1>8
<1>11. items \in BoundedSeq(Item, MaxItems)
  BY <1>1, <1>10, SameLength
<1>12. \A i \in DOMAIN items : /\ items[i].file = items[i].approval
                               /\ items[i].config = items[i].priced
  BY <1>7
<1> HIDE DEF items
<1>13. /\ order \in Order /\ order.file = f /\ order.approval = a /\ order.items = items
  BY <1>9, <1>11 DEF Order
<1> HIDE DEF order
<1>14. Shown(order)
  BY <1>9, <1>10, <1>12, <1>13 DEF Shown
<1>15. orders' \subseteq Order /\ \A o \in orders' : Shown(o)
  BY <1>2, <1>13, <1>14 DEF IInv, TypeOK
<1>16. /\ basket' \in [Baskets -> Basket]
       /\ \A e \in Baskets : basket'[e] = basket[e] \/ Members(e) \cap Members(b) # {}
  <2>1. Members(b) # {}
    BY <1>1, <1>8
  <2> QED BY <1>2, <1>4, <2>1 DEF IInv, TypeOK
<1> QED BY <1>1, <1>2, <1>15, <1>16, CheckedOutKeeps

-----------------------------------------------------------------------------
(* What goes on around the customer.                                         *)

\* Quotes become void, and the drafts keep what the commands about them rely on.
LEMMA VoidKeeps ==
  ASSUME IInv, quote' \in [Drafts -> Quote], draft' \in [Drafts -> Draft],
         \A d \in Drafts : /\ draft'[d].linked = draft[d].linked
                           /\ draft'[d].upload = draft[d].upload
                           /\ draft'[d].approval = draft[d].approval
                           /\ draft'[d].config = draft[d].config,
         \A b \in Baskets : frozen'[b] \in {frozen[b], NoBasketQuote},
         frozen' \in [Baskets -> BasketQuote],
         UNCHANGED <<layout, request, basket, orders>>
  PROVE  IInv'
<1>1. TypeOK'
  BY DEF IInv, TypeOK
<1>2. (\A d \in Drafts : DraftTells(d)') /\ (\A u \in Uploads : LayoutTells(u)')
  BY DEF IInv, DraftTells, LayoutTells
<1>3. \A b \in Baskets : QuoteTells(b)'
  BY BasketRow, QuotesKept
<1> QED BY <1>1, <1>2, <1>3 DEF IInv

LEMMA LapsesKeeps == ASSUME IInv, NEW ds, NEW bs, Lapses(ds, bs) PROVE IInv'
<1>1. NoQuote \in Quote /\ NoBasketQuote \in BasketQuote
  BY EmptyIsBounded DEF NoQuote, Quote, NoBasketQuote, BasketQuote
<1>2. UNCHANGED <<layout, draft, request, basket, orders>>
  BY DEF Lapses
<1>3. quote' \in [Drafts -> Quote]
  BY <1>1, DraftRow DEF Lapses
<1>4. /\ frozen' \in [Baskets -> BasketQuote]
      /\ \A b \in Baskets : frozen'[b] \in {frozen[b], NoBasketQuote}
  BY <1>1, BasketRow DEF Lapses
<1>5. draft \in [Drafts -> Draft]
  BY DEF IInv, TypeOK
<1> QED BY <1>2, <1>3, <1>4, <1>5, VoidKeeps

LEMMA PublishCatalogKeeps == ASSUME IInv, PublishCatalog PROVE IInv'
<1> DEFINE retired(d) == [draft[d] EXCEPT !.retired = TRUE]
           new(d) == IF Exists(d) THEN retired(d) ELSE draft[d]
<1>1. NoQuote \in Quote /\ NoBasketQuote \in BasketQuote
  BY EmptyIsBounded DEF NoQuote, Quote, NoBasketQuote, BasketQuote
<1>2. \A d \in Drafts : /\ retired(d) \in Draft
                        /\ retired(d).linked = draft[d].linked
                        /\ retired(d).upload = draft[d].upload
                        /\ retired(d).approval = draft[d].approval
                        /\ retired(d).config = draft[d].config
  <2> SUFFICES ASSUME NEW d \in Drafts
               PROVE  /\ retired(d) \in Draft
                      /\ retired(d).linked = draft[d].linked
                      /\ retired(d).upload = draft[d].upload
                      /\ retired(d).approval = draft[d].approval
                      /\ retired(d).config = draft[d].config
    OBVIOUS
  <2>1. draft[d] \in Draft
    BY DraftRow
  <2> QED BY <2>1 DEF Draft
<1>3. draft' = [d \in Drafts |-> new(d)]
  BY DEF PublishCatalog
<1> HIDE DEF retired
<1>4. \A d \in Drafts : /\ new(d) \in Draft
                        /\ new(d).linked = draft[d].linked
                        /\ new(d).upload = draft[d].upload
                        /\ new(d).approval = draft[d].approval
                        /\ new(d).config = draft[d].config
  BY <1>2, DraftRow
<1> HIDE DEF new
<1>5. /\ draft' \in [Drafts -> Draft]
      /\ \A d \in Drafts : /\ draft'[d].linked = draft[d].linked
                           /\ draft'[d].upload = draft[d].upload
                           /\ draft'[d].approval = draft[d].approval
                           /\ draft'[d].config = draft[d].config
  BY <1>3, <1>4
<1>6. /\ quote' \in [Drafts -> Quote] /\ frozen' \in [Baskets -> BasketQuote]
      /\ \A b \in Baskets : frozen'[b] \in {frozen[b], NoBasketQuote}
      /\ UNCHANGED <<layout, request, basket, orders>>
  BY <1>1 DEF PublishCatalog
<1> QED BY <1>5, <1>6, VoidKeeps

-----------------------------------------------------------------------------
(* The invariants of the specification.                                      *)

LEMMA PreparedTyped ==
  ASSUME NEW c \in Configs, NEW u \in Uploads
  PROVE  Prepared(c, u) \in Draft /\ Linked(Prepared(c, u))
<1>1. /\ Start(c, "FREE") \in Draft /\ u # None
  BY StartTyped, OrderingAssumption DEF Preference
<1> QED BY <1>1 DEF Prepared, Draft, DraftStatus, Linked

LEMMA StartKeeps == ASSUME Init PROVE IInv
<1>1. PICK c \in Configs :
        /\ layout = [u \in Uploads |->
                       IF u \in Range(File) THEN Approved(c) ELSE NoLayout]
        /\ draft = [d \in Drafts |-> IF d \in Settled THEN Prepared(c, File[d])
                                     ELSE [Start(c, "FREE") EXCEPT !.status = "NONE"]]
  BY DEF Init
<1>2. /\ Approved(c) \in Layout /\ RowTells(Approved(c))
      /\ NoLayout \in Layout /\ RowTells(NoLayout)
  BY OrderingAssumption DEF Approved, NoLayout, Layout, LayoutStatus, RowTells
<1>3. layout \in [Uploads -> Layout] /\ \A u \in Uploads : LayoutTells(u)
  BY <1>1, <1>2 DEF LayoutTells, RowTells
<1> DEFINE none == [Start(c, "FREE") EXCEPT !.status = "NONE"]
<1>4. none \in Draft /\ Linked(none)
  BY StartTyped DEF Draft, DraftStatus, Linked, Preference
<1> HIDE DEF none
<1>5. \A d \in Settled : Prepared(c, File[d]) \in Draft /\ Linked(Prepared(c, File[d]))
  BY PreparedTyped, OrderingAssumption
<1>6. draft \in [Drafts -> Draft] /\ \A d \in Drafts : Linked(draft[d])
  BY <1>1, <1>4, <1>5 DEF none
<1>7. /\ NoQuote \in Quote /\ NoRequest \in Request /\ NoRequest.kind = "NONE"
      /\ NoBasketQuote \in BasketQuote
  BY EmptyIsBounded DEF NoQuote, Quote, NoRequest, Request, NoBasketQuote, BasketQuote
<1>8. [status |-> "NONE", items |-> <<>>, chosen |-> FALSE] \in Basket
  BY EmptyIsBounded DEF Basket
<1>9. TypeOK
  BY <1>3, <1>6, <1>7, <1>8 DEF Init, TypeOK
<1>10. \A d \in Drafts : DraftTells(d)
  BY <1>6, <1>7 DEF Init, DraftTells, Linked
<1>11. \A b \in Baskets : QuoteTells(b)
  BY DEF Init, QuoteTells
<1> QED BY <1>3, <1>9, <1>10, <1>11 DEF IInv, Init

LEMMA StepKeeps == ASSUME IInv, [Next]_vars PROVE IInv'
<1>1. ASSUME NEW d \in Drafts, DraftStep(d) PROVE IInv'
  BY <1>1, FileCommands, OtherCommands, CreateLayoutKeeps, ApproveKeeps, FinishKeeps,
     AbandonKeeps, GetQuoteKeeps, CheckoutKeeps DEF DraftStep
<1>2. ASSUME NEW b \in Baskets, BasketStep(b) PROVE IInv'
  BY <1>2, ItemCommands, BasketCommands, QuoteBasketKeeps, CheckoutBasketKeeps
     DEF BasketStep
<1>3. CASE QuoteExpires \/ PublishTariff
  BY <1>3, LapsesKeeps DEF QuoteExpires, PublishTariff
<1>4. CASE UNCHANGED vars
  <2>1. UNCHANGED <<layout, draftVars, basketVars, orders>>
    BY <1>4 DEF vars, draftVars, basketVars
  <2>2. layout' \in [Uploads -> Layout] /\ \A u \in Uploads : LayoutTells(u)'
    BY <2>1 DEF IInv, TypeOK, LayoutTells
  <2> QED BY <2>1, <2>2, LayoutFree
<1> QED
  BY <1>1, <1>2, <1>3, <1>4, CheckoutLayoutKeeps, LayoutChangesKeeps,
     PublishCatalogKeeps DEF Next

\* The inductive invariant holds in every reachable state.
THEOREM Invariant == Spec => []IInv
<1>1. Init => IInv
  BY StartKeeps
<1> QED BY <1>1, StepKeeps, PTL DEF Spec

\* Drafts, quotes, baskets and orders keep the shape of their rows; in particular
\* no command makes a basket longer than its limit, and no order is created
\* without an approval and a print-ready file.
THEOREM TypeCorrect == Spec => []TypeOK
<1>1. IInv => TypeOK
  BY DEF IInv
<1> QED BY <1>1, Invariant, PTL

\* createOrder, from a draft, a layout or a basket of any size: the file of every
\* order and item is the one its approval was given for, and an item has the
\* configuration it was priced with.
THEOREM AlwaysOrderedAsShown == Spec => []OrderedAsShown
<1>1. IInv => OrderedAsShown
  BY DEF IInv, Shown, OrderedAsShown
<1> QED BY <1>1, Invariant, PTL

\* approve and createLayout write the draft in a second transaction: whatever
\* edits come in between, a draft has no approval without its layout.
THEOREM ApprovalAlwaysNeedsLayout == Spec => []ApprovalNeedsLayout
<1>1. IInv => ApprovalNeedsLayout
  BY DEF IInv, DraftTells, ApprovalNeedsLayout
<1> QED BY <1>1, Invariant, PTL
=============================================================================
