----------------------------- MODULE HlRlpProofs -----------------------------
(***************************************************************************)
(* Decoding undoes encoding, for bodies, blocks and announcements with any *)
(* transactions and any combination of present and missing options.  The   *)
(* options are found by position, so the placeholders of the missing ones  *)
(* matter: all three facts rest on one about a struct with trailing        *)
(* options.                                                                *)
(***************************************************************************)
EXTENDS HlRlp, TLAPS

IsOption(option) == option = None \/ \E value : option = Some(value)

(* The options of a struct of this node: there are at most four. *)
AreOptions(options) ==
  /\ Len(options) \in 0..4 /\ DOMAIN options = 1..Len(options)
  /\ \A i \in DOMAIN options :
       /\ options[i].code # EmptyString
       /\ IsOption(options[i].value)

Present(options) == {i \in DOMAIN options : options[i].value # None}
LastOf(present) == IF present = {} THEN 0
                   ELSE CHOOSE i \in present : \A j \in present : j <= i

(***************************************************************************)
(* The length of an encoding: the options up to the last one present are   *)
(* written (the derive of Encodable with trailing options).                *)
(***************************************************************************)
LEMMA LastPresent ==
  ASSUME NEW present \in SUBSET (1..4)
  PROVE  /\ LastOf(present) \in 0..4
         /\ \A i \in present : i <= LastOf(present)
         /\ present # {} => LastOf(present) \in present
<1>1. CASE present = {}
  BY <1>1 DEF LastOf
<1>2. CASE present # {}
  <2>1. \E i \in present : \A j \in present : j <= i
    <3>1. CASE 4 \in present
      <4>1. \A j \in present : j <= 4
        OBVIOUS
      <4> QED  BY <3>1, <4>1
    <3>2. CASE 4 \notin present /\ 3 \in present
      <4>1. \A j \in present : j <= 3
        BY <3>2
      <4> QED  BY <3>2, <4>1
    <3>3. CASE 4 \notin present /\ 3 \notin present /\ 2 \in present
      <4>1. \A j \in present : j <= 2
        BY <3>3
      <4> QED  BY <3>3, <4>1
    <3>4. CASE 4 \notin present /\ 3 \notin present /\ 2 \notin present
      <4>1. \A j \in present : j = 1
        BY <3>4
      <4>2. PICK i \in present : TRUE
        BY <1>2
      <4>3. \A j \in present : j <= i
        BY <4>1, <4>2
      <4> QED  BY <4>2, <4>3
    <3> QED  BY <3>1, <3>2, <3>3, <3>4
  <2>2. LastOf(present) = CHOOSE i \in present : \A j \in present : j <= i
    BY <1>2 DEF LastOf
  <2>3. LastOf(present) \in present /\ \A j \in present : j <= LastOf(present)
    BY <2>1, <2>2
  <2>4. \A i \in present : i \in 0..4
    OBVIOUS
  <2> QED  BY <2>3, <2>4
<1> QED  BY <1>1, <1>2

(***************************************************************************)
(* Every required field is at its place, and at the place of an option the *)
(* decoder finds the option, present or missing (RlpEncodable and          *)
(* RlpDecodable with trailing options).                                    *)
(***************************************************************************)
LEMMA TrailingRoundTrip ==
  ASSUME NEW required, NEW options, Len(required) \in Nat, AreOptions(options)
  PROVE  /\ \A i \in 1..Len(required) : encode_trailing(required, options)[i] = required[i]
         /\ \A i \in DOMAIN options :
              decode_option(encode_trailing(required, options), Len(required) + i)
                = options[i].value
<1> DEFINE r == Len(required)
           last == LastOf(Present(options))
           items == encode_trailing(required, options)
           At(i) == IF i <= r THEN required[i]
                    ELSE IF options[i - r].value = None THEN Item(EmptyString, None)
                    ELSE Item(options[i - r].code, options[i - r].value.some)
<1>1. Present(options) \in SUBSET (1..4)
  BY DEF Present, AreOptions
<1>2. last \in 0..4 /\ \A i \in Present(options) : i <= last
  BY <1>1, LastPresent
<1>3. items = [i \in 1..r + last |-> At(i)]
  BY DEF encode_trailing, Present, LastOf
<1>0. r \in Nat
  OBVIOUS
<1> HIDE DEF r, last, items
<1>4. Len(items) = r + last /\ \A i \in 1..r + last : items[i] = At(i)
  BY <1>0, <1>2, <1>3
<1>5. ASSUME NEW i \in 1..r
      PROVE  items[i] = required[i]
  BY <1>0, <1>2, <1>4
<1>6. ASSUME NEW i \in DOMAIN options
      PROVE  decode_option(items, r + i) = options[i].value
  <2>1. i \in 1..4 /\ r + i - r = i /\ ~(r + i <= r)
    BY <1>0, <1>6 DEF AreOptions
  <2>2. CASE i > last
    <3>1. options[i].value = None
      BY <1>2, <1>6, <2>1, <2>2 DEF Present
    <3>2. r + i > Len(items)
      BY <1>0, <1>2, <1>4, <2>1, <2>2
    <3> QED  BY <3>1, <3>2 DEF decode_option
  <2>3. CASE i <= last
    <3>1. ~(r + i > Len(items)) /\ items[r + i] = At(r + i)
      BY <1>0, <1>2, <1>4, <2>1, <2>3
    <3>2. CASE options[i].value = None
      <4>1. items[r + i] = Item(EmptyString, None)
        BY <1>0, <2>1, <3>1, <3>2
      <4> QED  BY <3>1, <3>2, <4>1 DEF decode_option, Item
    <3>3. CASE options[i].value # None
      <4>1. items[r + i] = Item(options[i].code, options[i].value.some)
        BY <1>0, <2>1, <3>1, <3>3
      <4>2. options[i].code # EmptyString /\ IsOption(options[i].value)
        BY <1>6 DEF AreOptions
      <4>3. options[i].value = Some(options[i].value.some)
        <5>1. PICK value : options[i].value = Some(value)
          BY <3>3, <4>2 DEF IsOption
        <5>2. Some(value).some = value
          BY DEF Some
        <5> QED  BY <5>1, <5>2
      <4> QED  BY <3>1, <4>1, <4>2, <4>3 DEF decode_option, Item
    <3> QED  BY <3>2, <3>3
  <2>4. i > last \/ i <= last
    BY <1>2, <2>1
  <2> QED  BY <2>2, <2>3, <2>4
<1> QED  BY <1>5, <1>6 DEF items, r

-----------------------------------------------------------------------------
Body(transactions, withdrawals, sidecars, calls, highest) ==
  [transactions |-> transactions, withdrawals |-> withdrawals, sidecars |-> sidecars,
   read_precompile_calls |-> calls, highest_precompile_address |-> highest]

(***************************************************************************)
(* A body that is sent is the body that arrives (Encodable and Decodable   *)
(* for HlBlockBody), with the extras the node executes the block with.     *)
(***************************************************************************)
THEOREM BodyRoundTrip ==
  ASSUME NEW transactions, NEW withdrawals, NEW sidecars, NEW calls, NEW highest,
         IsOption(withdrawals), IsOption(sidecars), IsOption(calls), IsOption(highest)
  PROVE  LET body == Body(transactions, withdrawals, sidecars, calls, highest)
         IN  decode_body(encode_body(body)) = body
<1> DEFINE required == <<Item(List, transactions), Item(List, <<>>)>>
           options == <<Option(List, withdrawals), Option(List, sidecars),
                        Option(Bytes, calls), Option(Address, highest)>>
           items == encode_trailing(required, options)
<1>1. encode_body(Body(transactions, withdrawals, sidecars, calls, highest)) = items
  BY DEF encode_body, Body
<1>2. Len(required) = 2 /\ AreOptions(options)
  BY DEF AreOptions, Option, List, Bytes, Address, EmptyString
<1>3. required[1].value = transactions /\ DOMAIN options = 1..4
  BY DEF Item
<1>4. /\ options[1].value = withdrawals /\ options[2].value = sidecars
      /\ options[3].value = calls /\ options[4].value = highest
  BY DEF Option
<1> HIDE DEF required, options
<1>5. /\ items[1].value = transactions
      /\ \A i \in 1..4 : decode_option(items, 2 + i) = options[i].value
  <2>1. Len(required) \in Nat /\ AreOptions(options)
    BY <1>2
  <2>2. \A i \in 1..Len(required) : items[i] = required[i]
    BY <2>1, TrailingRoundTrip
  <2>3. \A i \in DOMAIN options : decode_option(items, Len(required) + i) = options[i].value
    BY <2>1, TrailingRoundTrip
  <2> HIDE DEF items
  <2> QED  BY <1>2, <1>3, <2>2, <2>3
<1> HIDE DEF items
<1>6. /\ decode_option(items, 3) = withdrawals /\ decode_option(items, 4) = sidecars
      /\ decode_option(items, 5) = calls /\ decode_option(items, 6) = highest
  BY <1>4, <1>5
<1> QED  BY <1>1, <1>5, <1>6 DEF decode_body, Body

(***************************************************************************)
(* A block that is encoded is the block that is decoded (Encodable and     *)
(* Decodable for HlBlock).                                                 *)
(***************************************************************************)
THEOREM BlockRoundTrip ==
  ASSUME NEW header, NEW transactions, NEW withdrawals, NEW sidecars, NEW calls, NEW highest,
         IsOption(withdrawals), IsOption(sidecars), IsOption(calls), IsOption(highest)
  PROVE  LET block == [header |-> header,
                       body |-> Body(transactions, withdrawals, sidecars, calls, highest)]
         IN  decode_block(encode_block(block)) = block
<1> DEFINE required == <<Item(List, header), Item(List, transactions), Item(List, <<>>)>>
           options == <<Option(List, withdrawals), Option(List, sidecars),
                        Option(Bytes, calls), Option(Address, highest)>>
           items == encode_trailing(required, options)
           block == [header |-> header,
                     body |-> Body(transactions, withdrawals, sidecars, calls, highest)]
<1>1. encode_block(block) = items
  BY DEF encode_block, Body
<1>2. Len(required) = 3 /\ AreOptions(options)
  BY DEF AreOptions, Option, List, Bytes, Address, EmptyString
<1>3. required[1].value = header /\ required[2].value = transactions /\ DOMAIN options = 1..4
  BY DEF Item
<1>4. /\ options[1].value = withdrawals /\ options[2].value = sidecars
      /\ options[3].value = calls /\ options[4].value = highest
  BY DEF Option
<1> HIDE DEF required, options
<1>5. /\ items[1].value = header /\ items[2].value = transactions
      /\ \A i \in 1..4 : decode_option(items, 3 + i) = options[i].value
  <2>1. Len(required) \in Nat /\ AreOptions(options)
    BY <1>2
  <2>2. \A i \in 1..Len(required) : items[i] = required[i]
    BY <2>1, TrailingRoundTrip
  <2>3. \A i \in DOMAIN options : decode_option(items, Len(required) + i) = options[i].value
    BY <2>1, TrailingRoundTrip
  <2> HIDE DEF items
  <2> QED  BY <1>2, <1>3, <2>2, <2>3
<1> HIDE DEF items
<1>6. /\ decode_option(items, 4) = withdrawals /\ decode_option(items, 5) = sidecars
      /\ decode_option(items, 6) = calls /\ decode_option(items, 7) = highest
  BY <1>4, <1>5
<1> QED  BY <1>1, <1>5, <1>6 DEF decode_block, Body

(***************************************************************************)
(* A block that is announced is the block that is imported, although its   *)
(* body is split between the block and the message around it (Encodable    *)
(* and Decodable for HlNewBlock).                                          *)
(***************************************************************************)
THEOREM NewBlockRoundTrip ==
  ASSUME NEW header, NEW transactions, NEW withdrawals, NEW sidecars, NEW calls, NEW highest,
         NEW td,
         IsOption(withdrawals), IsOption(sidecars), IsOption(calls), IsOption(highest)
  PROVE  LET block == [header |-> header,
                       body |-> Body(transactions, withdrawals, sidecars, calls, highest)]
         IN  decode_new_block(encode_new_block(block, td)) = block
<1> DEFINE inner == <<Item(List, header), Item(List, transactions), Item(List, <<>>)>>
           withdrawn == <<Option(List, withdrawals)>>
           helper == encode_trailing(inner, withdrawn)
           outer == <<Item(List, helper), Item(Bytes, td)>>
           options == <<Option(List, sidecars), Option(Bytes, calls), Option(Address, highest)>>
           items == encode_trailing(outer, options)
           block == [header |-> header,
                     body |-> Body(transactions, withdrawals, sidecars, calls, highest)]
<1>1. encode_new_block(block, td) = items
  BY DEF encode_new_block, Body
<1>2. /\ Len(inner) = 3 /\ inner[1].value = header /\ inner[2].value = transactions
      /\ DOMAIN withdrawn = 1..1 /\ withdrawn[1].value = withdrawals
  BY DEF Item, Option
<1>3. AreOptions(withdrawn)
  BY DEF AreOptions, Option, List, EmptyString
<1> HIDE DEF inner, withdrawn
<1>4. /\ helper[1].value = header /\ helper[2].value = transactions
      /\ decode_option(helper, 3 + 1) = withdrawals
  <2>1. Len(inner) \in Nat /\ AreOptions(withdrawn)
    BY <1>2, <1>3
  <2>2. \A i \in 1..Len(inner) : helper[i] = inner[i]
    BY <2>1, TrailingRoundTrip
  <2>3. \A i \in DOMAIN withdrawn : decode_option(helper, Len(inner) + i) = withdrawn[i].value
    BY <2>1, TrailingRoundTrip
  <2> HIDE DEF helper
  <2> QED  BY <1>2, <2>2, <2>3
<1> HIDE DEF helper
<1>5. Len(outer) = 2 /\ outer[1].value = helper /\ DOMAIN options = 1..3
  BY DEF Item
<1>6. /\ options[1].value = sidecars /\ options[2].value = calls
      /\ options[3].value = highest
  BY DEF Option
<1>7. AreOptions(options)
  BY DEF AreOptions, Option, List, Bytes, Address, EmptyString
<1> HIDE DEF outer, options
<1>8. /\ items[1].value = helper
      /\ \A i \in 1..3 : decode_option(items, 2 + i) = options[i].value
  <2>1. Len(outer) \in Nat /\ AreOptions(options)
    BY <1>5, <1>7
  <2>2. \A i \in 1..Len(outer) : items[i] = outer[i]
    BY <2>1, TrailingRoundTrip
  <2>3. \A i \in DOMAIN options : decode_option(items, Len(outer) + i) = options[i].value
    BY <2>1, TrailingRoundTrip
  <2> HIDE DEF items
  <2> QED  BY <1>5, <2>2, <2>3
<1> HIDE DEF items
<1>9. /\ decode_option(items, 3) = sidecars /\ decode_option(items, 4) = calls
      /\ decode_option(items, 5) = highest /\ decode_option(helper, 4) = withdrawals
  BY <1>4, <1>6, <1>8
<1> QED  BY <1>1, <1>4, <1>8, <1>9 DEF decode_new_block, Body
=============================================================================
