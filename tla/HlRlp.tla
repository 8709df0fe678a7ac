-------------------------------- MODULE HlRlp --------------------------------
(***************************************************************************)
(* The RLP encoding of blocks and bodies between the pseudo peer and the   *)
(* node (src/src/node/primitives/mod.rs, src/src/node/network/mod.rs).     *)
(*                                                                         *)
(* An encoding is a list of items, each with the first byte that announces *)
(* it.  The optional fields come last: what follows the last one present   *)
(* is left out, and one that is missing before it is an empty string.  The *)
(* derive macros that do this are external; which fields there are, and in *)
(* which order, is this node's.                                            *)
(***************************************************************************)
EXTENDS Options, Integers, Sequences

EmptyString == 128  \* EMPTY_STRING_CODE
List == 192         \* at least, for a list: transactions, withdrawals, sidecars
Bytes == 129        \* at least, for the MessagePack bytes of the calls, never empty
Address == 148      \* 20 bytes

Item(code, value) == [code |-> code, value |-> value]

(* Encodable of a struct with trailing options, each given with its code. *)
encode_trailing(required, options) ==
  LET present == {i \in DOMAIN options : options[i].value # None}
      last == IF present = {} THEN 0
              ELSE CHOOSE i \in present : \A j \in present : j <= i
  IN  [i \in 1..Len(required) + last |->
         IF i <= Len(required) THEN required[i]
         ELSE LET option == options[i - Len(required)]
              IN  IF option.value = None THEN Item(EmptyString, None)
                  ELSE Item(option.code, option.value.some)]

(* Decodable: the option at a position of the list. *)
decode_option(items, i) ==
  IF i > Len(items) THEN None
  ELSE IF items[i].code = EmptyString THEN None
  ELSE Some(items[i].value)

Option(code, value) == [code |-> code, value |-> value]

(* Encodable for HlBlockBody; there are no ommers. *)
encode_body(body) ==
  encode_trailing(<<Item(List, body.transactions), Item(List, <<>>)>>,
    <<Option(List, body.withdrawals), Option(List, body.sidecars),
      Option(Bytes, body.read_precompile_calls),
      Option(Address, body.highest_precompile_address)>>)

decode_body(items) ==
  [transactions |-> items[1].value,
   withdrawals |-> decode_option(items, 3),
   sidecars |-> decode_option(items, 4),
   read_precompile_calls |-> decode_option(items, 5),
   highest_precompile_address |-> decode_option(items, 6)]

(* Encodable for HlBlock. *)
encode_block(block) ==
  encode_trailing(<<Item(List, block.header), Item(List, block.body.transactions),
                    Item(List, <<>>)>>,
    <<Option(List, block.body.withdrawals), Option(List, block.body.sidecars),
      Option(Bytes, block.body.read_precompile_calls),
      Option(Address, block.body.highest_precompile_address)>>)

decode_block(items) ==
  [header |-> items[1].value,
   body |-> [transactions |-> items[2].value,
             withdrawals |-> decode_option(items, 4),
             sidecars |-> decode_option(items, 5),
             read_precompile_calls |-> decode_option(items, 6),
             highest_precompile_address |-> decode_option(items, 7)]]

(* Encodable for HlNewBlock: the body is split between the block and the message. *)
encode_new_block(block, td) ==
  encode_trailing(
    <<Item(List, encode_trailing(<<Item(List, block.header), Item(List, block.body.transactions),
                                   Item(List, <<>>)>>,
                                 <<Option(List, block.body.withdrawals)>>)),
      Item(Bytes, td)>>,
    <<Option(List, block.body.sidecars), Option(Bytes, block.body.read_precompile_calls),
      Option(Address, block.body.highest_precompile_address)>>)

decode_new_block(items) ==
  LET block == items[1].value
  IN  [header |-> block[1].value,
       body |-> [transactions |-> block[2].value,
                 withdrawals |-> decode_option(block, 4),
                 sidecars |-> decode_option(items, 3),
                 read_precompile_calls |-> decode_option(items, 4),
                 highest_precompile_address |-> decode_option(items, 5)]]
=============================================================================
