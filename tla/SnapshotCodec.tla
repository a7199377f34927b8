--------------------------- MODULE SnapshotCodec ---------------------------
(***************************************************************************)
(* The bytes of a snapshot and of the Jupiter accounts behind it.          *)
(*                                                                         *)
(* Five pieces of code in three languages hold a layout each: some write   *)
(* or read the fields one after another, the others at fixed offsets.  A   *)
(* byte is <<field, k>>, the k-th byte of that field, so that a decoder    *)
(* that is off by one byte is seen to read parts of two fields.            *)
(***************************************************************************)
EXTENDS Integers, Sequences, SequencesExt

BodyLen == 225

HeaderLen == 32

Rejected == <<"rejected">>

\* The bytes of fields written one after another, <<field, width>> each.
BytesOf(fields) ==
    FlattenSeq([i \in DOMAIN fields |-> [k \in 1..fields[i][2] |-> <<fields[i][1], k>>]])

\* A field as it was written: all its bytes, in order.
Whole(field, width) == [k \in 1..width |-> <<field, k>>]

\* bytes[from..to) of the source, counted from 0.
Slice(bytes, from, to) == SubSeq(bytes, from + 1, to)
-----------------------------------------------------------------------------
(* The snapshot's body *)

\* PositionSnapshot::encode_body.
SnapshotFields ==
    << <<"position", 32>>, <<"vault_id", 2>>, <<"nft_id", 4>>, <<"position_mint", 32>>,
       <<"supply_token", 32>>, <<"borrow_token", 32>>, <<"col_raw", 8>>, <<"debt_raw", 8>>,
       <<"dust_debt", 8>>, <<"net_debt", 8>>, <<"tick", 4>>, <<"tick_id", 4>>,
       <<"stored_col_raw", 8>>, <<"stored_debt_raw", 8>>, <<"stored_tick", 4>>,
       <<"is_supply_only", 1>>, <<"is_liquidated", 1>>, <<"is_fully_liquidated", 1>>,
       <<"branch_id", 4>>, <<"vault_supply_exchange_price", 8>>,
       <<"vault_borrow_exchange_price", 8>>, <<"snapshot_time", 8>> >>

EncodeBody == BytesOf(SnapshotFields)

\* What the Solana decoder and _ids, _amounts and _meta on the EVM side cut
\* out of a body.
BodyOffsets ==
    [position |-> <<0, 32>>, vault_id |-> <<32, 34>>, nft_id |-> <<34, 38>>,
     position_mint |-> <<38, 70>>, supply_token |-> <<70, 102>>, borrow_token |-> <<102, 134>>,
     col_raw |-> <<134, 142>>, debt_raw |-> <<142, 150>>, dust_debt |-> <<150, 158>>,
     net_debt |-> <<158, 166>>, tick |-> <<166, 170>>, tick_id |-> <<170, 174>>,
     stored_col_raw |-> <<174, 182>>, stored_debt_raw |-> <<182, 190>>,
     stored_tick |-> <<190, 194>>, is_supply_only |-> <<194, 195>>,
     is_liquidated |-> <<195, 196>>, is_fully_liquidated |-> <<196, 197>>,
     branch_id |-> <<197, 201>>, vault_supply_exchange_price |-> <<201, 209>>,
     vault_borrow_exchange_price |-> <<209, 217>>, snapshot_time |-> <<217, 225>>]

Cut(body) == [f \in DOMAIN BodyOffsets |-> Slice(body, BodyOffsets[f][1], BodyOffsets[f][2])]

\* encodePositionSnapshot writes into the framed message, at these offsets.
ClientOffsets ==
    [position |-> 32, vault_id |-> 64, nft_id |-> 66, position_mint |-> 70,
     supply_token |-> 102, borrow_token |-> 134, col_raw |-> 166, debt_raw |-> 174,
     dust_debt |-> 182, net_debt |-> 190, tick |-> 198, tick_id |-> 202,
     stored_col_raw |-> 206, stored_debt_raw |-> 214, stored_tick |-> 222,
     is_supply_only |-> 226, is_liquidated |-> 227, is_fully_liquidated |-> 228,
     branch_id |-> 229, vault_supply_exchange_price |-> 233,
     vault_borrow_exchange_price |-> 241, snapshot_time |-> 249]
-----------------------------------------------------------------------------
(* The frame: a payload's length header, or Bare, and its bytes *)

Bare == -1

\* The header is 32 bytes: high stands for the first 28 of them, low for the
\* number in the last 4, a u32.
Payload(high, low, bytes) == [high |-> high, low |-> low, bytes |-> bytes]

\* CCIP carries the body as it is, LayerZero after a length header.
CcipData(body) == Payload(0, Bare, body)

WrapLzPayload(body) == Payload(0, Len(body), body)

Header(payload) == IF payload.low = Bare THEN << >> ELSE Whole("header", HeaderLen)

LengthOf(payload) == Len(Header(payload)) + Len(payload.bytes)

\* Mutant: the frame's last byte is never read.
MutUnwrapLzPayload(payload) ==
    IF payload.low < Len(payload.bytes) THEN Slice(payload.bytes, 0, payload.low)
    ELSE Rejected

\* Solana reads the header's last 4 bytes; what follows the bytes they declare
\* is ignored.
UnwrapLzPayload(payload) ==
    IF payload.low <= Len(payload.bytes) THEN Slice(payload.bytes, 0, payload.low)
    ELSE Rejected

\* What is declared must be a body.
DecodeOnSolana(payload) ==
    LET body == UnwrapLzPayload(payload)
    IN  IF body = Rejected \/ Len(body) # BodyLen THEN Rejected ELSE Cut(body)

\* The EVM compares the whole header.
DeclaresBody(payload) ==
    payload.high = 0 /\ payload.low = BodyLen /\ LengthOf(payload) >= HeaderLen + BodyLen

\* Mutant: a body that arrives alone is cut as if it had a header.
MutSnapshotBody(payload) ==
    IF DeclaresBody(payload) THEN Slice(payload.bytes, 0, BodyLen)
    ELSE Slice(payload.bytes, HeaderLen, Len(payload.bytes))

\* EVM: whatever has the length of a body, or a frame that declares one.
SnapshotBody(payload) ==
    IF LengthOf(payload) = BodyLen THEN Header(payload) \o payload.bytes
    ELSE IF DeclaresBody(payload) THEN Slice(payload.bytes, 0, BodyLen)
    ELSE Rejected

DecodeOnEvm(payload) ==
    LET body == SnapshotBody(payload)
    IN  IF body = Rejected \/ Len(body) # BodyLen THEN Rejected ELSE Cut(body)

\* Mutant: dust is subtracted whether or not the debt covers it.
MutPriced(s) == [supply |-> s.col, borrow |-> s.debt - s.dust, dust |-> s.dust]

\* price(): the amounts before they are multiplied by the exchange prices.
Priced(s) ==
    LET covered == s.debt > s.dust
    IN  [supply |-> s.col, borrow |-> IF covered THEN s.debt - s.dust ELSE 0,
         dust |-> IF covered THEN s.dust ELSE 0]
-----------------------------------------------------------------------------
(* Jupiter's accounts: the program reads them in order, the client at offsets *)

Disc == <<"disc", 8>>

PositionAccount ==
    << Disc, <<"vault_id", 2>>, <<"nft_id", 4>>, <<"position_mint", 32>>,
       <<"is_supply_only_position", 1>>, <<"tick", 4>>, <<"tick_id", 4>>,
       <<"supply_amount", 8>>, <<"dust_debt_amount", 8>> >>

TickAccount ==
    << Disc, <<"vault_id", 2>>, <<"tick", 4>>, <<"is_liquidated", 1>>, <<"total_ids", 4>>,
       <<"raw_debt", 8>>, <<"is_fully_liquidated", 1>>, <<"liquidation_branch_id", 4>>,
       <<"debt_factor", 8>> >>

BranchAccount ==
    << Disc, <<"vault_id", 2>>, <<"branch_id", 4>>, <<"status", 1>>, <<"minima_tick", 4>>,
       <<"minima_tick_partials", 4>>, <<"debt_liquidity", 8>>, <<"debt_factor", 8>>,
       <<"connected_branch_id", 4>>, <<"connected_minima_tick", 4>> >>

IsFull == <<"is_fully_liquidated_0", "is_fully_liquidated_1", "is_fully_liquidated_2">>
BranchOf == <<"branch_id_0", "branch_id_1", "branch_id_2">>
FactorIn == <<"debt_factor_0", "debt_factor_1", "debt_factor_2">>

TickIdLiquidationAccount ==
    << Disc, <<"vault_id", 2>>, <<"tick", 4>>, <<"tick_map", 4>> >>
    \o FlattenSeq([i \in 1..3 |->
                       << <<IsFull[i], 1>>, <<BranchOf[i], 4>>, <<FactorIn[i], 8>> >>])

\* <<field, offset, width>> of each read; none below the length it asks for.
ClientPosition ==
    { <<"vault_id", 8, 2>>, <<"nft_id", 10, 4>>, <<"is_supply_only_position", 46, 1>>,
      <<"tick", 47, 4>>, <<"tick_id", 51, 4>>, <<"supply_amount", 55, 8>>,
      <<"dust_debt_amount", 63, 8>> }

ClientTick ==
    { <<"tick", 10, 4>>, <<"is_liquidated", 14, 1>>, <<"total_ids", 15, 4>>,
      <<"is_fully_liquidated", 27, 1>>, <<"liquidation_branch_id", 28, 4>>,
      <<"debt_factor", 32, 8>> }

ClientBranch ==
    { <<"branch_id", 10, 4>>, <<"status", 14, 1>>, <<"minima_tick", 15, 4>>,
      <<"minima_tick_partials", 19, 4>>, <<"debt_factor", 31, 8>>,
      <<"connected_branch_id", 39, 4>> }

\* Mutant: the slots start right after the tick.
MutSlotOffset(i) == 14 + 13 * (i - 1)

SlotOffset(i) == 18 + 13 * (i - 1)

ClientSlots ==
    UNION {{ <<IsFull[i], SlotOffset(i), 1>>, <<BranchOf[i], SlotOffset(i) + 1, 4>>,
             <<FactorIn[i], SlotOffset(i) + 5, 8>> } : i \in 1..3}

\* The reads of a client find the fields, and the length it asks for covers them.
ReadsWhole(reads, account, minimum) ==
    LET bytes == BytesOf(account)
    IN  \A r \in reads : /\ Slice(bytes, r[2], r[2] + r[3]) = Whole(r[1], r[3])
                         /\ r[2] + r[3] <= minimum
-----------------------------------------------------------------------------
(* What the layouts promise *)

\* Both routers bring the same body: what the program encodes decodes to the
\* same fields on the EVM side from either frame, on Solana from the framed
\* one, and the client's encoder writes every field where they look for it.
\* Of the frames that are not themselves as long as a body, the EVM takes
\* those that Solana takes whose header is below 2^32, and reads them alike;
\* Solana looks at no more of a header than its last 4 bytes.
LayoutsAgree ==
    LET body == EncodeBody
        extra == Whole("extra", 2)
        widths == [i \in DOMAIN SnapshotFields |-> SnapshotFields[i][2]]
        frames == {Payload(high, low, Slice(body \o extra, 0, n)) :
                      high \in {0, 1}, low \in {0, BodyLen - 1, BodyLen, BodyLen + 1},
                      n \in {BodyLen - HeaderLen - 1, BodyLen - 1, BodyLen, BodyLen + 2}}
        faithful == [f \in DOMAIN BodyOffsets |->
                        Whole(f, BodyOffsets[f][2] - BodyOffsets[f][1])]
    IN  /\ Len(body) = BodyLen
        /\ \A i \in DOMAIN SnapshotFields :
               LET f == SnapshotFields[i][1]
               IN  /\ BodyOffsets[f][2] - BodyOffsets[f][1] = widths[i]
                   /\ ClientOffsets[f] = HeaderLen + BodyOffsets[f][1]
        /\ DecodeOnEvm(CcipData(body)) = faithful
        /\ DecodeOnEvm(WrapLzPayload(body)) = faithful
        /\ DecodeOnSolana(WrapLzPayload(body)) = faithful
        /\ \A p \in frames :
               /\ DecodeOnEvm(p) = IF p.high = 0 THEN DecodeOnSolana(p) ELSE Rejected
               /\ DecodeOnSolana(p) = DecodeOnSolana([p EXCEPT !.high = 0])
               /\ DecodeOnSolana(p) # Rejected <=> p.low = BodyLen /\ Len(p.bytes) >= BodyLen

\* The client picks accounts from the same bytes as the program does.
ReadersAgree ==
    /\ ReadsWhole(ClientPosition, PositionAccount, 71)
    /\ ReadsWhole(ClientTick, TickAccount, 40)
    /\ ReadsWhole(ClientBranch, BranchAccount, 43)
    /\ ReadsWhole(ClientSlots, TickIdLiquidationAccount, 57)
=============================================================================
