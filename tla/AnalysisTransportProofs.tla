------------------------ MODULE AnalysisTransportProofs ------------------------
(* Theorems about AnalysisTransport, for all constants.                    *)
EXTENDS AnalysisTransport, FiniteSetTheorems, SequenceTheorems, TLAPS

(* The collections, and what validation asks of an entry of each.          *)
LEMMA OrderIs ==
    /\ DOMAIN Order = 1..6
    /\ Collections = {"document_date", "deadlines", "appointments", "amounts",
                      "required_documents", "suggested_tasks"}
    /\ \A i \in 1..6 : Order[i] \in Collections
    /\ \A c \in Collections : \E i \in 1..6 : Order[i] = c
  <1>1. DOMAIN Order = 1..6
    BY DEF Order
  <1>2. /\ Order[1] = "document_date" /\ Order[2] = "deadlines" /\ Order[3] = "appointments"
        /\ Order[4] = "amounts" /\ Order[5] = "required_documents" /\ Order[6] = "suggested_tasks"
    BY DEF Order
  <1>3. Collections = {Order[i] : i \in 1..6}
    BY <1>1 DEF Collections, Range
  <1> QED
    BY <1>1, <1>2, <1>3

ItemValid(c, item) ==
    /\ item.date \in {"null", "day"} \union Midnights \union LaxMidnights
    /\ c # "document_date" => item.named
    /\ c \in {"document_date", "deadlines"} => item.date # "null" \/ item.source = "text"
    /\ c = "appointments" => item.time \in {"null", "offset_free", "zoned", "zoned_unread"}
    /\ c = "amounts" => /\ item.value \in {"number", "decimal_text"}
                        /\ item.currency.length = 3
                        /\ item.directed

(* An entry has no error exactly if each field it has is valid.            *)
LEMMA NothingWrong ==
    ASSUME NEW c \in Collections, NEW item
    PROVE  Wrong(c, item) = {} <=> ItemValid(c, item)
  <1> DEFINE invalid == {k \in DOMAIN Fields(c) : ~Valid(item, Fields(c)[k])}
  <1>1. Wrong(c, item) = {} <=> invalid = {} /\ ~Undated(c, item)
    BY DEF Wrong
  <1>2. /\ Valid(item, "named") <=> item.named
        /\ Valid(item, "date") <=> item.date \in {"null", "day"} \union Midnights \union LaxMidnights
        /\ Valid(item, "time") <=> item.time \in {"null", "offset_free", "zoned", "zoned_unread"}
        /\ Valid(item, "value") <=> item.value \in {"number", "decimal_text"}
        /\ Valid(item, "currency") <=> item.currency.length = 3
        /\ Valid(item, "directed") <=> item.directed
    BY DEF Valid
  <1>3. CASE c = "document_date"
    <2>1. Fields(c) = <<"date">>
      BY <1>3 DEF Fields
    <2>2. invalid = {} <=> Valid(item, "date")
      BY <2>1
    <2> QED
      BY <1>1, <1>2, <1>3, <2>2 DEF Undated, ItemValid
  <1>4. CASE c = "appointments"
    <2>1. Fields(c) = <<"named", "date", "time">>
      BY <1>4 DEF Fields
    <2>2. invalid = {} <=> Valid(item, "named") /\ Valid(item, "date") /\ Valid(item, "time")
      BY <2>1
    <2> QED
      BY <1>1, <1>2, <1>4, <2>2 DEF Undated, ItemValid
  <1>5. CASE c = "amounts"
    <2>1. Fields(c) = <<"value", "currency", "named", "directed", "date">>
      BY <1>5 DEF Fields
    <2>2. invalid = {} <=> /\ Valid(item, "value") /\ Valid(item, "currency")
                           /\ Valid(item, "named") /\ Valid(item, "directed") /\ Valid(item, "date")
      BY <2>1
    <2> QED
      BY <1>1, <1>2, <1>5, <2>2 DEF Undated, ItemValid
  <1>6. CASE c \notin {"document_date", "appointments", "amounts"}
    <2>1. Fields(c) = <<"named", "date">>
      BY <1>6 DEF Fields
    <2>2. invalid = {} <=> Valid(item, "named") /\ Valid(item, "date")
      BY <2>1
    <2> QED
      BY <1>1, <1>2, <1>6, <2>2 DEF Undated, ItemValid
  <1> QED
    BY <1>3, <1>4, <1>5, <1>6

(* What validation accepts, without its errors.                            *)
Accepted(payload) ==
    /\ payload.status # "missing"
    /\ payload.status = "complete" => payload.explained
    /\ \A c \in Collections : \A n \in DOMAIN payload.facts[c] : ItemValid(c, payload.facts[c][n])

LEMMA NoIssues ==
    ASSUME NEW payload PROVE Issues(payload) = {} <=> Accepted(payload)
  <1> DEFINE wrong(e) == Wrong(Order[e[1]], ItemAt(payload, e))
             facts == UNION {{e} \X wrong(e) : e \in Entries(payload)}
             fields == facts \union (IF payload.status = "missing" THEN {<<Root, 0>>} ELSE {})
  <1>1. facts = {} <=> \A e \in Entries(payload) : wrong(e) = {}
    <2> HIDE DEF wrong
    <2>1. ASSUME NEW e \in Entries(payload), NEW k \in wrong(e) PROVE <<e, k>> \in facts
      <3>1. <<e, k>> \in {e} \X wrong(e)
        BY <2>1
      <3> QED
        BY <3>1
    <2>2. ASSUME NEW p \in facts PROVE \E e \in Entries(payload) : wrong(e) # {}
      OBVIOUS
    <2> QED
      BY <2>1, <2>2
  <1>2. (\A e \in Entries(payload) : wrong(e) = {})
        <=> \A i \in 1..6 : \A n \in DOMAIN payload.facts[Order[i]] :
               Wrong(Order[i], payload.facts[Order[i]][n]) = {}
    <2>1. ASSUME NEW i \in 1..6, NEW n \in DOMAIN payload.facts[Order[i]]
          PROVE  /\ <<i, n>> \in Entries(payload)
                 /\ wrong(<<i, n>>) = Wrong(Order[i], payload.facts[Order[i]][n])
      BY OrderIs DEF Entries, ItemAt
    <2>2. ASSUME NEW e \in Entries(payload)
          PROVE  /\ e[1] \in 1..6 /\ e[2] \in DOMAIN payload.facts[Order[e[1]]]
                 /\ wrong(e) = Wrong(Order[e[1]], payload.facts[Order[e[1]]][e[2]])
      BY OrderIs DEF Entries, ItemAt
    <2> HIDE DEF wrong
    <2>3. (\A e \in Entries(payload) : wrong(e) = {}) =>
             \A i \in 1..6 : \A n \in DOMAIN payload.facts[Order[i]] :
                Wrong(Order[i], payload.facts[Order[i]][n]) = {}
      BY <2>1
    <2>4. (\A i \in 1..6 : \A n \in DOMAIN payload.facts[Order[i]] :
              Wrong(Order[i], payload.facts[Order[i]][n]) = {}) =>
             \A e \in Entries(payload) : wrong(e) = {}
      BY <2>2
    <2> QED
      BY <2>3, <2>4
  <1>3. (\A i \in 1..6 : \A n \in DOMAIN payload.facts[Order[i]] :
            Wrong(Order[i], payload.facts[Order[i]][n]) = {})
        <=> \A c \in Collections : \A n \in DOMAIN payload.facts[c] :
               ItemValid(c, payload.facts[c][n])
    BY OrderIs, NothingWrong
  <1>4. fields = {} <=> facts = {} /\ payload.status # "missing"
    OBVIOUS
  <1>5. Issues(payload) = {}
           <=> fields = {} /\ ~(payload.status = "complete" /\ ~payload.explained)
    BY DEF Issues
  <1> HIDE DEF wrong, facts, fields
  <1> QED
    BY <1>1, <1>2, <1>3, <1>4, <1>5 DEF Accepted
-----------------------------------------------------------------------------
(* There are finitely many errors.                                         *)
HasEntries(payload) ==
    \A c \in Collections : \E length \in Nat : DOMAIN payload.facts[c] = 1..length

LEMMA FiniteIssues ==
    ASSUME NEW payload, HasEntries(payload)
    PROVE  IsFiniteSet(Issues(payload))
  <1>1. PICK length \in [Collections -> Nat] :
           \A c \in Collections : DOMAIN payload.facts[c] = 1..length[c]
    <2> DEFINE Chosen(c) == CHOOSE l \in Nat : DOMAIN payload.facts[c] = 1..l
    <2>1. \A c \in Collections : Chosen(c) \in Nat /\ DOMAIN payload.facts[c] = 1..Chosen(c)
      BY DEF HasEntries
    <2> HIDE DEF Chosen
    <2>2. [c \in Collections |-> Chosen(c)] \in [Collections -> Nat]
      BY <2>1
    <2> QED
      BY <2>1, <2>2
  <1> DEFINE most == length["document_date"] + length["deadlines"] + length["appointments"]
                     + length["amounts"] + length["required_documents"] + length["suggested_tasks"]
             places == ((0..6) \X (0..most)) \X (0..5)
  <1>2. most \in Nat /\ \A c \in Collections : length[c] \in Nat /\ length[c] <= most
    <2>1. /\ length["document_date"] \in Nat /\ length["deadlines"] \in Nat
          /\ length["appointments"] \in Nat /\ length["amounts"] \in Nat
          /\ length["required_documents"] \in Nat /\ length["suggested_tasks"] \in Nat
      BY <1>1, OrderIs
    <2> QED
      BY <2>1, OrderIs
  <1> HIDE DEF most
  <1>3. IsFiniteSet(places)
    <2>1. 0 \in Int /\ 5 \in Int /\ 6 \in Int /\ most \in Int
      BY <1>2
    <2>2. IsFiniteSet(0..6) /\ IsFiniteSet(0..5)
      BY <2>1, FS_Interval
    <2>3. IsFiniteSet(0..most)
      BY <2>1, FS_Interval
    <2> QED
      BY <2>2, <2>3, FS_Product
  <1>4. \A e \in Entries(payload) : e \in (0..6) \X (0..most)
    <2>1. ASSUME NEW i \in 1..6, NEW n \in DOMAIN payload.facts[Order[i]]
          PROVE  i \in 0..6 /\ n \in 0..most
      <3>1. Order[i] \in Collections /\ n \in 1..length[Order[i]]
        BY <1>1, OrderIs
      <3> QED
        BY <1>2, <3>1
    <2> QED
      BY <2>1, OrderIs DEF Entries
  <1>5. \A c, item : Wrong(c, item) \subseteq 0..5
    <2>1. \A c : DOMAIN Fields(c) \subseteq 0..5
      BY DEF Fields
    <2> QED
      BY <2>1 DEF Wrong
  <1>6. Issues(payload) \in SUBSET places
    <2>1. <<Root, 0>> \in places /\ <<Root, 1>> \in places
      BY <1>2 DEF Root
    <2>2. ASSUME NEW e \in Entries(payload), NEW k \in Wrong(Order[e[1]], ItemAt(payload, e))
          PROVE  <<e, k>> \in places
      BY <1>4, <1>5, <2>2
    <2> HIDE DEF places
    <2> QED
      BY <2>1, <2>2 DEF Issues
  <1> QED
    BY <1>3, <1>6, FS_Subset
-----------------------------------------------------------------------------
(* The loop and the join: what is counted of n entries, up to six, is what *)
(* is written of them.                                                     *)
LEMMA SumIs ==
    ASSUME NEW lengths
    PROVE  /\ Sum6(lengths, 0) = 0
           /\ \A n \in 1..6 : Sum6(lengths, n) = Sum6(lengths, n - 1) + lengths[n]
  <1> DEFINE body(f) == [k \in 0..6 |-> IF k = 0 THEN 0 ELSE f[k - 1] + lengths[k]]
             sum == CHOOSE f : f = body(f)
  <1>1. \E f : f = body(f)
    <2> DEFINE s1 == 0 + lengths[1]
               s2 == s1 + lengths[2]
               s3 == s2 + lengths[3]
               s4 == s3 + lengths[4]
               s5 == s4 + lengths[5]
               s6 == s5 + lengths[6]
               f == [k \in 0..6 |-> IF k = 0 THEN 0 ELSE IF k = 1 THEN s1 ELSE IF k = 2 THEN s2
                                   ELSE IF k = 3 THEN s3 ELSE IF k = 4 THEN s4
                                   ELSE IF k = 5 THEN s5 ELSE s6]
    <2>1. \A k \in 0..6 : f[k] = body(f)[k]
      OBVIOUS
    <2>2. f = [k \in 0..6 |-> f[k]] /\ body(f) = [k \in 0..6 |-> body(f)[k]]
      OBVIOUS
    <2>3. f = body(f)
      BY <2>1, <2>2
    <2> QED
      BY <2>3
  <1>2. sum = body(sum)
    BY <1>1
  <1>3. \A n \in 0..6 : Sum6(lengths, n) = sum[n]
    BY DEF Sum6
  <1> HIDE DEF sum
  <1> QED
    BY <1>2, <1>3

LEMMA CountedIsWritten ==
    ASSUME NEW most \in 0..6, NEW lengths \in [1..most -> Nat]
    PROVE  \A n \in 1..most : Written(lengths, n) \in Nat /\ Counted(lengths, n) = Written(lengths, n)
  <1> DEFINE parts == [k \in DOMAIN lengths |-> lengths[k] + (IF k > 1 THEN 1 ELSE 0)]
             P(n) == n <= most => /\ Sum6(lengths, n) \in Nat
                                  /\ Sum6(parts, n) = Sum6(lengths, n) + (n - 1)
  <1>1. \A n \in 1..most : /\ lengths[n] \in Nat
                           /\ parts[n] = lengths[n] + (IF n > 1 THEN 1 ELSE 0)
    OBVIOUS
  <1>2. Sum6(lengths, 0) = 0 /\ Sum6(parts, 0) = 0
    BY SumIs
  <1>3. \A n \in 1..6 : /\ Sum6(lengths, n) = Sum6(lengths, n - 1) + lengths[n]
                        /\ Sum6(parts, n) = Sum6(parts, n - 1) + parts[n]
    BY SumIs
  <1> HIDE DEF parts
  <1>4. P(1)
    <2>1. 1 \in 1..6 /\ 1 - 1 = 0
      OBVIOUS
    <2>2. Sum6(lengths, 1) = 0 + lengths[1] /\ Sum6(parts, 1) = 0 + parts[1]
      BY <1>2, <1>3, <2>1
    <2>3. 1 <= most => lengths[1] \in Nat /\ parts[1] = lengths[1] + 0
      BY <1>1
    <2> QED
      BY <2>2, <2>3
  <1>5. ASSUME NEW n \in 1..5, P(n) PROVE P(n + 1)
    <2>1. CASE n + 1 <= most
      <3>1. /\ Sum6(lengths, n + 1) = Sum6(lengths, n) + lengths[n + 1]
            /\ Sum6(parts, n + 1) = Sum6(parts, n) + parts[n + 1]
        BY <1>3
      <3>2. lengths[n + 1] \in Nat /\ parts[n + 1] = lengths[n + 1] + 1
        BY <1>1, <2>1
      <3>3. Sum6(lengths, n) \in Nat /\ Sum6(parts, n) = Sum6(lengths, n) + (n - 1)
        BY <1>5, <2>1
      <3> QED
        BY <3>1, <3>2, <3>3
    <2>2. CASE ~(n + 1 <= most)
      BY <2>2
    <2> QED
      BY <2>1, <2>2
  <1> HIDE DEF P
  <1>6. P(2) /\ P(3)
    BY <1>4, <1>5
  <1>7. P(4) /\ P(5)
    BY <1>5, <1>6
  <1>8. P(6)
    BY <1>5, <1>7
  <1>9. \A n \in 1..most : P(n)
    BY <1>4, <1>6, <1>7, <1>8
  <1>10. \A n \in 1..most : Sum6(lengths, n) \in Nat /\ Sum6(parts, n) = Sum6(lengths, n) + (n - 1)
    BY <1>9 DEF P
  <1>11. \A n \in 1..most : /\ Written(lengths, n) = 3 + Sum6(lengths, n) + (n - 1)
                            /\ Counted(lengths, n) = 3 + Sum6(parts, n)
    BY DEF Written, Counted, parts
  <1> QED
    BY <1>10, <1>11

(* The loop stops somewhere: at the end, or at the first that is too long. *)
LEMMA KeptIs ==
    ASSUME NEW most \in 0..6, NEW lengths \in [1..most -> Nat]
    PROVE  LET kept == Kept(lengths)
           IN  /\ kept \in 0..most
               /\ \A m \in 1..kept : Written(lengths, m) <= 128
               /\ kept < most => Written(lengths, kept + 1) > 128
  <1> DEFINE fits(n) == Counted(lengths, n) <= 128
             stops(n) == /\ \A m \in 1..n : fits(m)
                         /\ n < most => Counted(lengths, n + 1) > 128
  <1>1. Len(lengths) = most
    OBVIOUS
  <1>2. Kept(lengths) = CHOOSE n \in 0..most : stops(n)
    BY <1>1 DEF Kept, MaxDiagnosticLength
  <1>3. \A n \in 1..most : ~fits(n) => Counted(lengths, n) > 128
    <2>1. \A n \in 1..most : Counted(lengths, n) \in Nat
      BY CountedIsWritten
    <2> QED
      BY <2>1
  <1> HIDE DEF fits
  <1>4. \E n \in 0..most : stops(n)
    <2>1. CASE \A m \in 1..most : fits(m)
      BY <2>1
    <2>2. CASE \E m \in 1..most : ~fits(m)
      <3>1. PICK n \in 1..most : ~fits(n) /\ \A m \in 1..(n - 1) : fits(m)
        BY <2>2
      <3>2. n - 1 \in 0..most /\ stops(n - 1)
        BY <1>3, <3>1
      <3> QED
        BY <3>2
    <2> QED
      BY <2>1, <2>2
  <1>5. Kept(lengths) \in 0..most /\ stops(Kept(lengths))
    BY <1>2, <1>4
  <1> QED
    <2>1. \A n \in 1..most : Counted(lengths, n) = Written(lengths, n)
      BY CountedIsWritten
    <2> DEFINE kept == Kept(lengths)
    <2>2. kept \in 0..most /\ stops(kept)
      BY <1>5
    <2> HIDE DEF kept
    <2>3. \A m \in 1..kept : Written(lengths, m) <= 128
      BY <2>1, <2>2 DEF fits
    <2>4. kept < most => Written(lengths, kept + 1) > 128
      BY <2>1, <2>2
    <2> QED
      BY <2>2, <2>3, <2>4 DEF kept

(* The executor's diagnostic is whole, so that no bound cuts it.           *)
LEMMA DiagnoseWhole ==
    ASSUME NEW most \in 0..6, NEW lengths \in [1..most -> Nat]
    PROVE  LET d == Diagnose(lengths)
           IN  /\ d = [entries |-> d.entries, length |-> d.length]
               /\ d.length = Written(lengths, d.entries)
               /\ d.length \in 0..MaxDiagnosticLength
               /\ d.entries < Len(lengths) =>
                     Written(lengths, d.entries + 1) > MaxDiagnosticLength
  <1> DEFINE kept == Kept(lengths)
  <1>1. /\ kept \in 0..most
        /\ \A m \in 1..kept : Written(lengths, m) <= 128
        /\ kept < most => Written(lengths, kept + 1) > 128
    BY KeptIs
  <1>2. Written(lengths, kept) \in 0..128
    <2>1. CASE kept = 0
      BY <2>1 DEF Written
    <2>2. CASE kept # 0
      <3>1. kept \in 1..kept /\ kept \in 1..most
        BY <1>1, <2>2
      <3>2. Written(lengths, kept) \in Nat
        BY <3>1, CountedIsWritten
      <3>3. Written(lengths, kept) <= 128
        BY <1>1, <3>1
      <3>4. \A length \in Nat : length <= 128 => length \in 0..128
        OBVIOUS
      <3> QED
        BY <3>2, <3>3, <3>4
    <2> QED
      BY <2>1, <2>2
  <1>3. Diagnose(lengths) = [entries |-> kept, length |-> Bound(Written(lengths, kept))]
    BY DEF Diagnose
  <1>4. Len(lengths) = most
    OBVIOUS
  <1> HIDE DEF kept
  <1>5. Bound(Written(lengths, kept)) = Written(lengths, kept)
    <2>1. \A length \in 0..128 : Bound(length) = length
      BY DEF Bound, MaxDiagnosticLength
    <2> QED
      BY <1>2, <2>1
  <1> QED
    BY <1>1, <1>2, <1>3, <1>4, <1>5 DEF MaxDiagnosticLength
-----------------------------------------------------------------------------
(* What becomes of the entries on their way.                               *)
IsPayload(p) ==
    /\ p = [status |-> p.status, explained |-> p.explained,
            client_document_id |-> p.client_document_id, schema_version |-> p.schema_version,
            facts |-> p.facts]
    /\ p.facts = [c \in Collections |-> p.facts[c]]
    /\ \A c \in Collections : p.facts[c] = [n \in DOMAIN p.facts[c] |-> p.facts[c][n]]

LEMMA NormalIs ==
    ASSUME NEW p, IsPayload(p)
    PROVE  /\ Normal(p) = [status |-> p.status, explained |-> p.explained,
                           client_document_id |-> Document, schema_version |-> Version,
                           facts |-> Normal(p).facts]
           /\ Normal(p).facts =
                 [c \in Collections |-> [n \in DOMAIN p.facts[c] |-> NormalItem(c, p.facts[c][n])]]
           /\ IsPayload(Normal(p))
  <1> DEFINE facts == [c \in Collections |-> [n \in DOMAIN p.facts[c] |-> NormalItem(c, p.facts[c][n])]]
  <1>1. Normal(p) = [p EXCEPT !.client_document_id = Document, !.schema_version = Version,
                              !.facts = facts]
    BY DEF Normal, MapItems
  <1>2. facts = [c \in Collections |-> facts[c]]
        /\ \A c \in Collections : facts[c] = [n \in DOMAIN facts[c] |-> facts[c][n]]
    OBVIOUS
  <1> HIDE DEF facts
  <1>3. Normal(p) = [status |-> p.status, explained |-> p.explained,
                     client_document_id |-> Document, schema_version |-> Version, facts |-> facts]
    BY <1>1 DEF IsPayload
  <1>4. IsPayload(Normal(p))
    BY <1>2, <1>3 DEF IsPayload
  <1> QED
    BY <1>3, <1>4 DEF facts

LEMMA ModelIs ==
    ASSUME NEW p, IsPayload(p)
    PROVE  /\ Model(p) = [status |-> p.status, explained |-> p.explained,
                          client_document_id |-> p.client_document_id,
                          schema_version |-> p.schema_version, facts |-> Model(p).facts]
           /\ Model(p).facts =
                 [c \in Collections |-> [n \in DOMAIN p.facts[c] |-> ModelItem(c, p.facts[c][n])]]
           /\ IsPayload(Model(p))
  <1> DEFINE facts == [c \in Collections |-> [n \in DOMAIN p.facts[c] |-> ModelItem(c, p.facts[c][n])]]
  <1>1. Model(p) = [p EXCEPT !.facts = facts]
    BY DEF Model, MapItems
  <1>2. facts = [c \in Collections |-> facts[c]]
        /\ \A c \in Collections : facts[c] = [n \in DOMAIN facts[c] |-> facts[c][n]]
    OBVIOUS
  <1> HIDE DEF facts
  <1>3. Model(p) = [status |-> p.status, explained |-> p.explained,
                    client_document_id |-> p.client_document_id,
                    schema_version |-> p.schema_version, facts |-> facts]
    BY <1>1 DEF IsPayload
  <1>4. IsPayload(Model(p))
    BY <1>2, <1>3 DEF IsPayload
  <1> QED
    BY <1>3, <1>4 DEF facts

LEMMA DumpIs ==
    ASSUME NEW p, IsPayload(p)
    PROVE  /\ Dump(p) = [status |-> p.status, explained |-> p.explained,
                         client_document_id |-> p.client_document_id,
                         schema_version |-> p.schema_version, facts |-> Dump(p).facts]
           /\ Dump(p).facts =
                 [c \in Collections |-> [n \in DOMAIN p.facts[c] |-> DumpItem(c, p.facts[c][n])]]
           /\ IsPayload(Dump(p))
  <1> DEFINE facts == [c \in Collections |-> [n \in DOMAIN p.facts[c] |-> DumpItem(c, p.facts[c][n])]]
  <1>1. Dump(p) = [p EXCEPT !.facts = facts]
    BY DEF Dump, MapItems
  <1>2. facts = [c \in Collections |-> facts[c]]
        /\ \A c \in Collections : facts[c] = [n \in DOMAIN facts[c] |-> facts[c][n]]
    OBVIOUS
  <1> HIDE DEF facts
  <1>3. Dump(p) = [status |-> p.status, explained |-> p.explained,
                   client_document_id |-> p.client_document_id,
                   schema_version |-> p.schema_version, facts |-> facts]
    BY <1>1 DEF IsPayload
  <1>4. IsPayload(Dump(p))
    BY <1>2, <1>3 DEF IsPayload
  <1> QED
    BY <1>3, <1>4 DEF facts

LEMMA SentIsPayload ==
    ASSUME NEW p \in Payloads
    PROVE  IsPayload(p) /\ HasEntries(p)
           /\ \A c \in Collections : \A n \in DOMAIN p.facts[c] : p.facts[c][n] \in Items
  <1>1. p.facts \in [Collections -> Seq(Items)]
    BY DEF Payloads
  <1>2. \A c \in Collections : p.facts[c] \in Seq(Items)
    BY <1>1
  <1>3. \A s \in Seq(Items) : /\ Len(s) \in Nat /\ DOMAIN s = 1..Len(s)
                              /\ s = [n \in DOMAIN s |-> s[n]]
                              /\ \A n \in DOMAIN s : s[n] \in Items
    OBVIOUS
  <1>4. HasEntries(p) /\ \A c \in Collections : \A n \in DOMAIN p.facts[c] : p.facts[c][n] \in Items
    BY <1>2, <1>3 DEF HasEntries
  <1>5. /\ p = [status |-> p.status, explained |-> p.explained,
                client_document_id |-> p.client_document_id, schema_version |-> p.schema_version,
                facts |-> p.facts]
        /\ p.facts = [c \in Collections |-> p.facts[c]]
    BY <1>1 DEF Payloads
  <1> QED
    BY <1>2, <1>3, <1>4, <1>5 DEF IsPayload

IsItem(item) ==
    item = [named |-> item.named, date |-> item.date, time |-> item.time, source |-> item.source,
            value |-> item.value, currency |-> item.currency, directed |-> item.directed]

ModelTime(form) == CASE form = "null" -> Null [] form = "offset_free" -> "time" [] OTHER -> "zoned_time"
DumpTime(time) == CASE time = Null -> "null" [] time = "time" -> "offset_free" [] OTHER -> "zoned"

LEMMA ModelItemIs ==
    ASSUME NEW c, NEW item, IsItem(item)
    PROVE  /\ ModelItem(c, item).named = item.named
           /\ ModelItem(c, item).date = IF item.date = "null" THEN Null ELSE "date"
           /\ ModelItem(c, item).time = ModelTime(item.time)
           /\ ModelItem(c, item).source = item.source
           /\ ModelItem(c, item).value = IF c = "amounts" THEN "decimal" ELSE item.value
           /\ ModelItem(c, item).currency = IF c = "amounts" THEN Upper(item.currency) ELSE item.currency
           /\ ModelItem(c, item).directed = item.directed
           /\ IsItem(ModelItem(c, item))
  <1> DEFINE date == IF item.date = "null" THEN Null ELSE "date"
             time == ModelTime(item.time)
             value == IF c = "amounts" THEN "decimal" ELSE item.value
             currency == IF c = "amounts" THEN Upper(item.currency) ELSE item.currency
  <1>1. ModelItem(c, item) = [item EXCEPT !.date = date, !.time = time, !.value = value,
                                          !.currency = currency]
    BY DEF ModelItem, ModelTime
  <1> HIDE DEF date, time, value, currency
  <1>2. ModelItem(c, item) = [named |-> item.named, date |-> date, time |-> time,
                              source |-> item.source, value |-> value, currency |-> currency,
                              directed |-> item.directed]
    BY <1>1 DEF IsItem
  <1> QED
    BY <1>2 DEF IsItem, date, time, value, currency

LEMMA DumpItemIs ==
    ASSUME NEW c, NEW item, IsItem(item)
    PROVE  /\ DumpItem(c, item).named = item.named
           /\ DumpItem(c, item).date = IF item.date = Null THEN "null" ELSE "day"
           /\ DumpItem(c, item).time = DumpTime(item.time)
           /\ DumpItem(c, item).source = item.source
           /\ DumpItem(c, item).value = IF c = "amounts" THEN "decimal_text" ELSE item.value
           /\ DumpItem(c, item).currency = item.currency
           /\ DumpItem(c, item).directed = item.directed
           /\ IsItem(DumpItem(c, item))
  <1> DEFINE date == IF item.date = Null THEN "null" ELSE "day"
             time == DumpTime(item.time)
             value == IF c = "amounts" THEN "decimal_text" ELSE item.value
  <1>1. DumpItem(c, item) = [item EXCEPT !.date = date, !.time = time, !.value = value]
    BY DEF DumpItem, DumpTime
  <1> HIDE DEF date, time, value
  <1>2. DumpItem(c, item) = [named |-> item.named, date |-> date, time |-> time,
                             source |-> item.source, value |-> value, currency |-> item.currency,
                             directed |-> item.directed]
    BY <1>1 DEF IsItem
  <1> QED
    BY <1>2 DEF IsItem, date, time, value

(* One entry that was accepted: it is read as it was stored; the dump of   *)
(* it is accepted again unless the currency grew, and then it shows.       *)
LEMMA EntryKept ==
    ASSUME NEW c \in Collections, NEW sent \in Items, ItemValid(c, NormalItem(c, sent))
    PROVE  LET model == ModelItem(c, NormalItem(c, sent))
               dump == DumpItem(c, model)
           IN  /\ ModelItem(c, dump) = model
               /\ (model.date = Null) = (sent.date = "null")
               /\ (model.time = Null) = (sent.time = "null")
               /\ ItemValid(c, dump) => model.currency.length = sent.currency.length
               /\ c = "amounts" /\ ~sent.currency.grows => ItemValid(c, dump)
               /\ c # "amounts" => ItemValid(c, dump)
  <1> DEFINE normal == NormalItem(c, sent)
             model == ModelItem(c, normal)
             dump == DumpItem(c, model)
             again == ModelItem(c, dump)
  <1>1. /\ normal.named = sent.named /\ normal.date = NormalDate(sent.date)
        /\ normal.time = sent.time /\ normal.source = sent.source /\ normal.value = sent.value
        /\ normal.currency = sent.currency /\ normal.directed = sent.directed
        /\ IsItem(normal)
    BY DEF NormalItem, Items, IsItem
  <1>2. NormalDate(sent.date) = "null" <=> sent.date = "null"
    BY DEF NormalDate, Midnights
  <1>3. sent.currency.length \in Nat /\ sent.currency.grows \in BOOLEAN
    BY DEF Items, Currencies
  <1> HIDE DEF normal
  <1>4. /\ model.named = sent.named
        /\ model.date = IF sent.date = "null" THEN Null ELSE "date"
        /\ model.time = ModelTime(sent.time)
        /\ model.source = sent.source
        /\ model.value = IF c = "amounts" THEN "decimal" ELSE sent.value
        /\ model.currency = IF c = "amounts" THEN Upper(sent.currency) ELSE sent.currency
        /\ model.directed = sent.directed
        /\ IsItem(model)
    BY <1>1, <1>2, ModelItemIs
  <1> HIDE DEF model
  <1>5. /\ dump.named = sent.named
        /\ dump.date = IF sent.date = "null" THEN "null" ELSE "day"
        /\ dump.time = DumpTime(model.time)
        /\ dump.source = sent.source
        /\ dump.value = IF c = "amounts" THEN "decimal_text" ELSE sent.value
        /\ dump.currency = IF c = "amounts" THEN Upper(sent.currency) ELSE sent.currency
        /\ dump.directed = sent.directed
        /\ IsItem(dump)
    BY <1>4, NullAssumption, DumpItemIs
  <1> HIDE DEF dump
  <1>6. /\ dump.time \in {"null", "offset_free", "zoned"}
         /\ ModelTime(dump.time) = model.time
         /\ (model.time = Null) = (sent.time = "null")
    BY <1>4, <1>5, NullAssumption DEF ModelTime, DumpTime
  <1>7. Upper(Upper(sent.currency)) = Upper(sent.currency)
    <2>1. ASSUME NEW x, x.length \in Int, x.grows = FALSE
          PROVE  Upper(x) = [length |-> x.length, grows |-> FALSE]
      <3>1. Upper(x).length = x.length
        BY <2>1 DEF Upper
      <3> QED
        BY <3>1 DEF Upper
    <2>2. /\ Upper(sent.currency).length \in Int /\ Upper(sent.currency).grows = FALSE
          /\ Upper(sent.currency) = [length |-> Upper(sent.currency).length, grows |-> FALSE]
      BY <1>3 DEF Upper
    <2> QED
      BY <2>1, <2>2
  <1>8. again = model
    <2>1. /\ again.named = dump.named
          /\ again.date = IF dump.date = "null" THEN Null ELSE "date"
          /\ again.time = ModelTime(dump.time)
          /\ again.source = dump.source
          /\ again.value = IF c = "amounts" THEN "decimal" ELSE dump.value
          /\ again.currency = IF c = "amounts" THEN Upper(dump.currency) ELSE dump.currency
          /\ again.directed = dump.directed
          /\ IsItem(again)
      BY <1>5, ModelItemIs
    <2> HIDE DEF again
    <2>2. again.date = model.date /\ again.time = model.time
      BY <1>4, <1>5, <1>6, <2>1
    <2>3. again.value = model.value /\ again.currency = model.currency
      BY <1>4, <1>5, <1>7, <2>1
    <2>4. again.named = model.named /\ again.source = model.source /\ again.directed = model.directed
      BY <1>4, <1>5, <2>1
    <2> QED
      BY <1>4, <2>1, <2>2, <2>3, <2>4 DEF IsItem
  <1>9. (model.date = Null) = (sent.date = "null") /\ (model.time = Null) = (sent.time = "null")
    BY <1>4, <1>6, NullAssumption
  <1>10. ItemValid(c, normal) =>
           /\ c # "document_date" => sent.named
           /\ c \in {"document_date", "deadlines"} => sent.date # "null" \/ sent.source = "text"
           /\ c = "amounts" => sent.currency.length = 3 /\ sent.directed
    BY <1>1, <1>2 DEF ItemValid
  <1>11. ItemValid(c, dump) <=>
           /\ c # "document_date" => sent.named
           /\ c \in {"document_date", "deadlines"} => sent.date # "null" \/ sent.source = "text"
           /\ c = "amounts" => Upper(sent.currency).length = 3 /\ sent.directed
    BY <1>5, <1>6 DEF ItemValid
  <1>12. Upper(sent.currency).length = sent.currency.length + (IF sent.currency.grows THEN 1 ELSE 0)
    BY DEF Upper
  <1>13. ItemValid(c, normal)
    BY DEF normal
  <1>14. ItemValid(c, dump) => model.currency.length = sent.currency.length
    BY <1>3, <1>4, <1>10, <1>11, <1>12, <1>13
  <1>15. /\ c = "amounts" /\ ~sent.currency.grows => ItemValid(c, dump)
         /\ c # "amounts" => ItemValid(c, dump)
    BY <1>3, <1>10, <1>11, <1>12, <1>13
  <1> QED
    BY <1>8, <1>9, <1>14, <1>15 DEF normal, model, dump, again

(* A stored result: it is read as it was made, and accepted again unless a *)
(* currency grew; if it is, every entry is as the model answered it.       *)
LEMMA PayloadKept ==
    ASSUME NEW p \in Payloads, Issues(Normal(p)) = {}
    PROVE  LET result_ == Model(Normal(p))
               dump == Dump(result_)
           IN  /\ Model(dump) = result_
               /\ result_.client_document_id = Document /\ result_.schema_version = Version
               /\ dump.schema_version = Version
               /\ Issues(dump) # {} =>
                     \E n \in DOMAIN p.facts["amounts"] : p.facts["amounts"][n].currency.grows
               /\ \A c \in Collections :
                     /\ DOMAIN result_.facts[c] = DOMAIN p.facts[c]
                     /\ \A n \in DOMAIN p.facts[c] :
                           LET sent == p.facts[c][n]
                               read == result_.facts[c][n]
                           IN  /\ (read.date = Null) = (sent.date = "null")
                               /\ (read.time = Null) = (sent.time = "null")
                               /\ Issues(dump) = {} => read.currency.length = sent.currency.length
  <1> DEFINE normal == Normal(p)
             model == Model(normal)
             dump == Dump(model)
             again == Model(dump)
  <1>1. /\ normal.status = p.status /\ normal.explained = p.explained
        /\ normal.client_document_id = Document /\ normal.schema_version = Version
        /\ normal.facts = [c \in Collections |-> [n \in DOMAIN p.facts[c] |-> NormalItem(c, p.facts[c][n])]]
        /\ IsPayload(normal)
    BY SentIsPayload, NormalIs
  <1>2. Accepted(normal)
    BY NoIssues
  <1> HIDE DEF normal
  <1>3. /\ model = [status |-> normal.status, explained |-> normal.explained,
                    client_document_id |-> normal.client_document_id,
                    schema_version |-> normal.schema_version, facts |-> model.facts]
        /\ model.facts = [c \in Collections |-> [n \in DOMAIN normal.facts[c] |-> ModelItem(c, normal.facts[c][n])]]
        /\ IsPayload(model)
    BY <1>1, ModelIs
  <1> HIDE DEF model
  <1>4. /\ dump = [status |-> model.status, explained |-> model.explained,
                   client_document_id |-> model.client_document_id,
                   schema_version |-> model.schema_version, facts |-> dump.facts]
        /\ dump.facts = [c \in Collections |-> [n \in DOMAIN model.facts[c] |-> DumpItem(c, model.facts[c][n])]]
        /\ IsPayload(dump)
    BY <1>3, DumpIs
  <1> HIDE DEF dump
  <1>5. /\ again = [status |-> dump.status, explained |-> dump.explained,
                    client_document_id |-> dump.client_document_id,
                    schema_version |-> dump.schema_version, facts |-> again.facts]
        /\ again.facts = [c \in Collections |-> [n \in DOMAIN dump.facts[c] |-> ModelItem(c, dump.facts[c][n])]]
    BY <1>4, ModelIs
  <1> HIDE DEF again
  <1>6. ASSUME NEW c \in Collections, NEW n \in DOMAIN p.facts[c]
        PROVE  /\ n \in DOMAIN normal.facts[c] /\ n \in DOMAIN model.facts[c] /\ n \in DOMAIN dump.facts[c]
               /\ p.facts[c][n] \in Items
               /\ normal.facts[c][n] = NormalItem(c, p.facts[c][n])
               /\ model.facts[c][n] = ModelItem(c, NormalItem(c, p.facts[c][n]))
               /\ dump.facts[c][n] = DumpItem(c, ModelItem(c, NormalItem(c, p.facts[c][n])))
               /\ again.facts[c][n] = model.facts[c][n]
               /\ ItemValid(c, NormalItem(c, p.facts[c][n]))
    <2>1. /\ n \in DOMAIN normal.facts[c] /\ n \in DOMAIN model.facts[c] /\ n \in DOMAIN dump.facts[c]
      BY <1>1, <1>3, <1>4
    <2>2. p.facts[c][n] \in Items
      BY SentIsPayload
    <2>3. normal.facts[c][n] = NormalItem(c, p.facts[c][n])
      BY <1>1
    <2>4. model.facts[c][n] = ModelItem(c, NormalItem(c, p.facts[c][n]))
      BY <1>3, <2>1, <2>3
    <2>5. dump.facts[c][n] = DumpItem(c, ModelItem(c, NormalItem(c, p.facts[c][n])))
      BY <1>4, <2>1, <2>4
    <2>6. ItemValid(c, NormalItem(c, p.facts[c][n]))
      BY <1>2, <2>1, <2>3 DEF Accepted
    <2>7. again.facts[c][n] = ModelItem(c, DumpItem(c, ModelItem(c, NormalItem(c, p.facts[c][n]))))
      BY <1>5, <2>1, <2>5
    <2>8. again.facts[c][n] = model.facts[c][n]
      BY <2>2, <2>4, <2>6, <2>7, EntryKept
    <2> QED
      BY <2>1, <2>2, <2>3, <2>4, <2>5, <2>6, <2>8
  <1>7. \A c \in Collections :
           /\ DOMAIN normal.facts[c] = DOMAIN p.facts[c] /\ DOMAIN model.facts[c] = DOMAIN p.facts[c]
           /\ DOMAIN dump.facts[c] = DOMAIN p.facts[c] /\ DOMAIN again.facts[c] = DOMAIN p.facts[c]
    <2> TAKE c \in Collections
    <2>1. DOMAIN normal.facts[c] = DOMAIN p.facts[c]
      BY <1>1
    <2>2. DOMAIN model.facts[c] = DOMAIN normal.facts[c]
      BY <1>3
    <2>3. DOMAIN dump.facts[c] = DOMAIN model.facts[c]
      BY <1>4
    <2>4. DOMAIN again.facts[c] = DOMAIN dump.facts[c]
      BY <1>5
    <2> QED
      BY <2>1, <2>2, <2>3, <2>4
  <1>8. again = model
    <2>1. ASSUME NEW c \in Collections PROVE again.facts[c] = model.facts[c]
      <3>1. \A n \in DOMAIN p.facts[c] : again.facts[c][n] = model.facts[c][n]
        BY <1>6
      <3>2. /\ again.facts[c] = [n \in DOMAIN p.facts[c] |-> again.facts[c][n]]
            /\ model.facts[c] = [n \in DOMAIN p.facts[c] |-> model.facts[c][n]]
        BY <1>3, <1>5, <1>7
      <3> QED
        BY <3>1, <3>2
    <2>2. /\ again.facts = [c \in Collections |-> again.facts[c]]
          /\ model.facts = [c \in Collections |-> model.facts[c]]
      BY <1>3, <1>5
    <2>3. again.facts = model.facts
      BY <2>1, <2>2
    <2> QED
      BY <1>3, <1>4, <1>5, <2>3
  <1>9. Issues(dump) = {} <=>
           \A c \in Collections : \A n \in DOMAIN p.facts[c] :
              ItemValid(c, DumpItem(c, ModelItem(c, NormalItem(c, p.facts[c][n]))))
    <2>1. dump.status = normal.status /\ dump.explained = normal.explained
      BY <1>3, <1>4
    <2> QED
      BY <1>2, <1>6, <1>7, <2>1, NoIssues DEF Accepted
  <1>10. ASSUME NEW c \in Collections, NEW n \in DOMAIN p.facts[c]
         PROVE  /\ (model.facts[c][n].date = Null) = (p.facts[c][n].date = "null")
                /\ (model.facts[c][n].time = Null) = (p.facts[c][n].time = "null")
                /\ Issues(dump) = {} => model.facts[c][n].currency.length = p.facts[c][n].currency.length
                /\ c = "amounts" /\ ~p.facts[c][n].currency.grows =>
                      ItemValid(c, DumpItem(c, ModelItem(c, NormalItem(c, p.facts[c][n]))))
                /\ c # "amounts" => ItemValid(c, DumpItem(c, ModelItem(c, NormalItem(c, p.facts[c][n]))))
    BY <1>6, <1>9, EntryKept
  <1>11. Issues(dump) # {} =>
            \E n \in DOMAIN p.facts["amounts"] : p.facts["amounts"][n].currency.grows
    BY <1>9, <1>10
  <1>12. /\ model.client_document_id = Document /\ model.schema_version = Version
         /\ dump.schema_version = Version
    BY <1>1, <1>3, <1>4
  <1> QED
    BY <1>7, <1>8, <1>10, <1>11, <1>12 DEF normal, model, dump, again
-----------------------------------------------------------------------------
(* What a stage says of the answer, and what a reader was told of the row. *)
Payload == output.payload

StageInv ==
    /\ output \in Outputs
    /\ stage \in {"answered", "parsed", "rejected", "stored", "failed"}
    /\ stage \in {"parsed", "stored"} =>
          Parses /\ Found = {} /\ result = Model(Normal(Payload))
    /\ stage \in {"rejected", "failed"} =>
          /\ ~(Parses /\ Found = {})
          /\ \E most \in 0..6 : entries \in [1..most -> Nat]
          /\ diagnostic = Diagnose(entries)
    /\ stage = "stored" => row = [payload |-> Dump(result), schema_version |-> result.schema_version]

ToldInv ==
    /\ told.kind \in {"delivered", "unavailable"} => stage = "stored"
    /\ told.kind = "delivered" => told.result = Model(row.payload) /\ Issues(row.payload) = {}
    /\ told.kind = "unavailable" =>
          Issues(row.payload) # {} \/ row.schema_version # row.payload.schema_version

TransportInv == StageInv /\ ToldInv

LEMMA OutputTypes ==
    ASSUME NEW u \in Outputs, u.form = "object" PROVE u.payload \in Payloads
  BY OutputsAssumption

LEMMA ReportedType ==
    ASSUME output \in Outputs PROVE Reported \in 0..6
  <1>1. CASE Parses
    <2>1. Payload \in Payloads
      BY <1>1, OutputTypes DEF Parses, Payload
    <2>2. HasEntries(Normal(Payload))
      <3>1. \A c \in Collections : DOMAIN Normal(Payload).facts[c] = DOMAIN Payload.facts[c]
        <4>1. Normal(Payload).facts = [c \in Collections |->
                 [n \in DOMAIN Payload.facts[c] |-> NormalItem(c, Payload.facts[c][n])]]
          BY <2>1, SentIsPayload, NormalIs
        <4> QED
          BY <4>1
      <3> QED
        BY <2>1, <3>1, SentIsPayload DEF HasEntries
    <2>3. IsFiniteSet(Found)
      BY <1>1, <2>2, FiniteIssues DEF Found, Payload
    <2> DEFINE size == Cardinality(Found)
    <2>4. size \in Nat
      BY <2>3, FS_CardinalityType
    <2>5. Reported = Min({6, size})
      BY <1>1 DEF Reported
    <2> HIDE DEF size
    <2>6. \E x \in {6, size} : \A y \in {6, size} : x <= y
      BY <2>4
    <2>7. Min({6, size}) \in {6, size} /\ Min({6, size}) <= 6
      BY <2>6 DEF Min
    <2> QED
      BY <2>4, <2>5, <2>7
  <1>2. CASE ~Parses
    BY <1>2 DEF Reported
  <1> QED
    BY <1>1, <1>2

LEMMA TransportStep == ASSUME TransportInv, [Next]_vars PROVE TransportInv'
  <1> USE DEF TransportInv
  <1>1. ASSUME UNCHANGED output PROVE UNCHANGED <<Payload, Parses, Found>>
    BY <1>1 DEF Payload, Parses, Found
  <1>2. CASE Parse
    <2>1. UNCHANGED <<output, row, told>> /\ stage = "answered"
      BY <1>2 DEF Parse
    <2>2. CASE Parses /\ Found = {}
      <3>1. stage' = "parsed" /\ result' = Model(Normal(Payload))
        BY <1>2, <2>2 DEF Parse, Payload
      <3> QED
        BY <1>1, <2>1, <2>2, <3>1 DEF StageInv, ToldInv
    <2>3. CASE ~(Parses /\ Found = {})
      <3>1. /\ stage' = "rejected" /\ diagnostic' = Diagnose(entries')
            /\ entries' \in [1..Reported -> EntryLengths]
        BY <1>2, <2>3 DEF Parse
      <3>2. Reported \in 0..6 /\ entries' \in [1..Reported -> Nat]
        BY <3>1, ReportedType, EntryLengthsAssumption DEF StageInv
      <3>3. \E most \in 0..6 : entries' \in [1..most -> Nat]
        BY <3>2
      <3>4. ~(Parses /\ Found = {})'
        BY <1>1, <2>1, <2>3
      <3>5. StageInv'
        BY <2>1, <3>1, <3>3, <3>4, Zenon DEF StageInv
      <3>6. ToldInv'
        BY <2>1 DEF ToldInv
      <3> QED
        BY <3>5, <3>6
    <2> QED
      BY <2>2, <2>3
  <1>3. CASE Store
    BY <1>1, <1>3 DEF Store, StageInv, ToldInv
  <1>4. CASE Fail
    <2>1. /\ stage = "rejected" /\ stage' = "failed" /\ UNCHANGED <<output, result, entries, row, told>>
          /\ diagnostic' = [diagnostic EXCEPT !.length = Bound(@)]
      BY <1>4 DEF Fail
    <2>2. diagnostic = Diagnose(entries) /\ \E most \in 0..6 : entries \in [1..most -> Nat]
      BY <2>1 DEF StageInv
    <2>3. /\ diagnostic = [entries |-> diagnostic.entries, length |-> diagnostic.length]
          /\ diagnostic.length \in 0..MaxDiagnosticLength
      BY <2>2, DiagnoseWhole
    <2>4. Bound(diagnostic.length) = diagnostic.length
      BY <2>3 DEF Bound, MaxDiagnosticLength
    <2>5. diagnostic' = diagnostic
      BY <2>1, <2>3, <2>4
    <2> QED
      BY <1>1, <2>1, <2>5 DEF StageInv, ToldInv
  <1>5. CASE Expire
    BY <1>1, <1>5 DEF Expire, StageInv, ToldInv
  <1>6. CASE Read
    <2>1. stage = "stored" /\ told' = Delivery /\ UNCHANGED <<output, stage, result, diagnostic, row>>
      BY <1>6 DEF Read
    <2>2. StageInv'
      BY <1>1, <2>1 DEF StageInv
    <2>3. ToldInv'
      BY <2>1 DEF Delivery, ToldInv
    <2> QED
      BY <2>2, <2>3
  <1>7. CASE UNCHANGED vars
    BY <1>1, <1>7 DEF vars, StageInv, ToldInv
  <1> QED
    BY <1>2, <1>3, <1>4, <1>5, <1>6, <1>7 DEF Next

LEMMA TransportInvariant == Spec => []TransportInv
  <1>1. Init => TransportInv
    BY DEF Init, TransportInv, StageInv, ToldInv
  <1> QED
    BY <1>1, TransportStep, PTL DEF Spec

(* What passes the normalisation and the contract is as documented but for *)
(* the lax forms.                                                          *)
LEMMA FoundIsDocumented ==
    ASSUME NEW p \in Payloads, ~Refused(p)
    PROVE  Issues(Normal(p)) = {} <=> Documented(p, LaxForms)
  <1>1. /\ Normal(p).status = p.status /\ Normal(p).explained = p.explained
        /\ Normal(p).facts = [c \in Collections |->
                                [n \in DOMAIN p.facts[c] |-> NormalItem(c, p.facts[c][n])]]
    BY SentIsPayload, NormalIs
  <1>2. ASSUME NEW c \in Collections, NEW n \in DOMAIN p.facts[c]
        PROVE  /\ n \in DOMAIN Normal(p).facts[c]
               /\ Normal(p).facts[c][n] = NormalItem(c, p.facts[c][n])
               /\ ItemValid(c, NormalItem(c, p.facts[c][n])) <=> ItemValid(c, p.facts[c][n])
    <2>1. p.facts[c][n] \in Items
      BY SentIsPayload
    <2> DEFINE item == p.facts[c][n]
               normal == NormalItem(c, item)
    <2>2. /\ normal.named = item.named /\ normal.date = NormalDate(item.date)
          /\ normal.time = item.time /\ normal.source = item.source /\ normal.value = item.value
          /\ normal.currency = item.currency /\ normal.directed = item.directed
      BY <2>1 DEF NormalItem, Items
    <2>3. /\ NormalDate(item.date) = "null" <=> item.date = "null"
          /\ NormalDate(item.date) \in {"null", "day"} \union Midnights \union LaxMidnights
                <=> item.date \in {"null", "day"} \union Midnights \union LaxMidnights
      BY DEF NormalDate, Midnights
    <2> HIDE DEF item, normal
    <2>4. ItemValid(c, normal) <=> ItemValid(c, item)
      BY <2>2, <2>3 DEF ItemValid
    <2> QED
      BY <1>1, <2>4 DEF item, normal
  <1>3. \A c \in Collections : DOMAIN Normal(p).facts[c] = DOMAIN p.facts[c]
    BY <1>1
  <1>4. Accepted(Normal(p)) <=> Accepted(p)
    BY <1>1, <1>2, <1>3 DEF Accepted
  <1>5. ASSUME NEW c \in Collections, NEW n \in DOMAIN p.facts[c]
        PROVE  ItemValid(c, p.facts[c][n]) <=> AsDocumented(c, p.facts[c][n], LaxForms)
    <2> DEFINE item == p.facts[c][n]
    <2>1. item.date \in Dates /\ item.time \in Times /\ item.value \in Values
      BY SentIsPayload DEF Items
    <2>2. c = "appointments" => item.time # "zoned"
      BY DEF Refused
    <2> HIDE DEF item
    <2>3. item.date \in {"null", "day"} \union Midnights \union LaxMidnights
             <=> item.date \in {"null", "day"} \union Midnights \union LaxForms
      BY <2>1 DEF Dates, Midnights, LaxMidnights, LaxForms
    <2>4. c = "appointments" =>
             (item.time \in {"null", "offset_free", "zoned", "zoned_unread"}
                 <=> item.time \in {"null", "offset_free"} \union LaxForms)
      BY <2>1, <2>2 DEF Times, LaxForms
    <2>5. item.value \in {"number", "decimal_text"} <=> item.value \in {"number"} \union LaxForms
      BY <2>1 DEF Values, LaxForms
    <2>6. ItemValid(c, item) <=> AsDocumented(c, item, LaxForms)
      BY <2>3, <2>4, <2>5 DEF ItemValid, AsDocumented
    <2> QED
      BY <2>6 DEF item
  <1>6. Accepted(p) <=> Documented(p, LaxForms)
    BY <1>5 DEF Accepted, Documented
  <1> QED
    BY <1>4, <1>6, NoIssues

(* No documented answer is rejected, and of the others those are accepted  *)
(* that depart in nothing but the lax forms (_parse_transport_result).     *)
THEOREM AcceptanceCorrect == Spec => []AcceptedIsDocumentedOrLax
  <1>1. ASSUME TransportInv PROVE AcceptedIsDocumentedOrLax
    <2>1. ASSUME output.form = "object", Refused(output.payload)
          PROVE  ~Documented(output.payload, LaxForms)
      BY <2>1, OrderIs DEF Refused, Documented, AsDocumented, LaxForms
    <2>2. ASSUME output.form = "object", ~Refused(output.payload)
          PROVE  Found = {} <=> Documented(output.payload, LaxForms)
      <3>1. output.payload \in Payloads
        BY <1>1, <2>2, OutputTypes DEF TransportInv, StageInv
      <3> QED
        BY <2>2, <3>1, FoundIsDocumented DEF Found, Parses
    <2>3. Parses /\ Found = {} <=> output.form = "object" /\ Documented(output.payload, LaxForms)
      BY <2>1, <2>2 DEF Parses
    <2>4. Documented(output.payload, {}) => Documented(output.payload, LaxForms)
      BY DEF Documented, AsDocumented
    <2> QED
      BY <1>1, <2>3, <2>4 DEF TransportInv, StageInv, AcceptedIsDocumentedOrLax
  <1> QED
    BY <1>1, TransportInvariant, PTL

(* No bound cuts an entry of a diagnostic, and none that fits is left out  *)
(* (_safe_validation_diagnostic, bound_diagnostic).                        *)
THEOREM DiagnosticCorrect == Spec => []DiagnosticWhole
  <1>1. ASSUME TransportInv PROVE DiagnosticWhole
    <2> SUFFICES ASSUME stage \in {"rejected", "failed"}
                 PROVE  /\ diagnostic.length = Written(entries, diagnostic.entries)
                        /\ diagnostic.length <= MaxDiagnosticLength
                        /\ diagnostic.entries < Len(entries) =>
                              Written(entries, diagnostic.entries + 1) > MaxDiagnosticLength
      BY DEF DiagnosticWhole
    <2>1. diagnostic = Diagnose(entries) /\ \E most \in 0..6 : entries \in [1..most -> Nat]
      BY <1>1 DEF TransportInv, StageInv
    <2>2. \A length \in 0..MaxDiagnosticLength : length <= MaxDiagnosticLength
      BY DEF MaxDiagnosticLength
    <2> QED
      BY <2>1, <2>2, DiagnoseWhole
  <1> QED
    BY <1>1, TransportInvariant, PTL

(* A reader is delivered what the model answered, entry by entry, and only *)
(* a result whose currency grew is stored and never delivered.             *)
THEOREM DeliveryCorrect == Spec => []DeliveredIsAnswered
  <1>1. ASSUME TransportInv PROVE DeliveredIsAnswered
    <2>1. CASE told.kind \notin {"delivered", "unavailable"}
      BY <2>1 DEF DeliveredIsAnswered
    <2>2. CASE told.kind \in {"delivered", "unavailable"}
      <3>1. /\ stage = "stored" /\ Parses /\ Found = {} /\ result = Model(Normal(Payload))
            /\ row = [payload |-> Dump(result), schema_version |-> result.schema_version]
        BY <1>1, <2>2 DEF TransportInv, StageInv, ToldInv
      <3>2. Payload \in Payloads /\ Issues(Normal(Payload)) = {}
        BY <1>1, <3>1, OutputTypes DEF TransportInv, StageInv, Parses, Found, Payload
      <3>3. row.payload = Dump(Model(Normal(Payload))) /\ row.schema_version = result.schema_version
        BY <3>1
      <3>4. CASE told.kind = "delivered"
        <4>1. told.result = Model(row.payload) /\ Issues(row.payload) = {}
          BY <1>1, <3>4 DEF TransportInv, ToldInv
        <4>2. told.result = result
          BY <3>1, <3>2, <3>3, <4>1, PayloadKept
        <4> QED
          BY <3>1, <3>2, <3>3, <3>4, <4>1, <4>2, PayloadKept DEF DeliveredIsAnswered, Payload
      <3>5. CASE told.kind = "unavailable"
        <4>1. Issues(row.payload) # {} \/ row.schema_version # row.payload.schema_version
          BY <1>1, <3>5 DEF TransportInv, ToldInv
        <4>2. row.schema_version = row.payload.schema_version
          BY <3>1, <3>2, <3>3, PayloadKept
        <4> QED
          BY <3>2, <3>3, <3>5, <4>1, <4>2, PayloadKept DEF DeliveredIsAnswered, Payload
      <3> QED
        BY <2>2, <3>4, <3>5
    <2> QED
      BY <2>1, <2>2
  <1> QED
    BY <1>1, TransportInvariant, PTL
=============================================================================
