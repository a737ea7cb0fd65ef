----------------------------- MODULE HashBuffer -----------------------------
(***************************************************************************)
(* SHA-256 and HMAC of src/cbase_hash.c: how a message that comes in       *)
(* pieces of any length is cut into blocks, padded and closed.  The        *)
(* compression function is not looked into: the working state is the       *)
(* sequence of the blocks compressed so far, so that two states are equal  *)
(* only if every compression function makes them equal.                    *)
(*                                                                         *)
(* A byte is a tagged tuple: <<"byte", v>> one with a known value,         *)
(* <<"msg", i>> and <<"key", i>> the i-th of the message and of the key,   *)
(* <<"digest", blocks, i>> the i-th of a digest, <<"ipad", b>> and         *)
(* <<"opad", b>> the byte b xor'ed with a pad, and Junk what was on the    *)
(* stack.                                                                  *)
(***************************************************************************)
EXTENDS Integers, Sequences, SequencesExt

CONSTANTS
  BlockLen,    \* CB_SHA256_BLOCK_LEN, 64
  DigestLen,   \* CB_SHA256_DIGEST_LEN, 32
  LengthLen,   \* the bytes of the length field, 8
  ByteBase,    \* 2^8
  KeyLens,     \* the lengths of the keys
  MaxPiece,    \* bound on the length of a piece of the message
  MaxMessage   \* bound on the length of the message

(* What the constants must be: a digest and a length field fit in a block. *)
ASSUME HashAssumption ==
  /\ BlockLen \in Nat \ {0}
  /\ DigestLen \in 1..BlockLen /\ LengthLen \in 1..BlockLen
  /\ KeyLens \subseteq Nat /\ MaxPiece \in Nat /\ MaxMessage \in Nat

VARIABLES
  mode,     \* what the caller has: nothing, a hash, an HMAC, or one that is spent
  ctx,      \* the cb_sha256_ctx_t, of an HMAC the inner one
  outer,    \* outer_key_pad of the HMAC
  keyLen,   \* history: the length of the key
  msgLen,   \* history: the length of the message so far
  digest    \* what the last final returned

hashVars == << mode, ctx, outer, keyLen, msgLen, digest >>

Byte(v) == << "byte", v >>
Junk == << "junk" >>
Zeros(n) == [i \in 1..n |-> Byte(0)]
Piece(from, len) == [i \in 1..len |-> << "msg", from + i >>]
Key(len) == [i \in 1..len |-> << "key", i >>]

NoDigest == << >>

-----------------------------------------------------------------------------
(* The hash.                                                               *)

(* cb_sha256_init leaves the buffer as it was. *)
NewContext ==
  [state |-> << >>, bits |-> 0, buffer |-> [i \in 1..BlockLen |-> Junk], len |-> 0]

Wiped ==
  [state |-> << >>, bits |-> 0, buffer |-> Zeros(BlockLen), len |-> 0]

(* The buffer with some bytes put in after the first n. *)
Stash(buffer, n, bytes) ==
  [i \in 1..BlockLen |->
     IF i \in (n + 1)..(n + Len(bytes)) THEN bytes[i - n] ELSE buffer[i]]

(* The full blocks of some data, and what is left over. *)
FullBlocks(data) ==
  [i \in 1..(Len(data) \div BlockLen) |->
     SubSeq(data, (i - 1) * BlockLen + 1, i * BlockLen)]

Tail_(data) == SubSeq(data, (Len(data) \div BlockLen) * BlockLen + 1, Len(data))

(***************************************************************************)
(* cb_sha256_update: a partial block is filled first, and stays partial if *)
(* the piece is too short; full blocks go straight from the input; the     *)
(* rest is kept.                                                           *)
(***************************************************************************)
Update(c, data) ==
  LET need == BlockLen - c.len
      counted == [c EXCEPT !.bits = @ + 8 * Len(data)]
      fills == c.len > 0 /\ Len(data) >= need
      rest == IF fills THEN SubSeq(data, need + 1, Len(data)) ELSE data
      filled == IF fills THEN << Stash(c.buffer, c.len, SubSeq(data, 1, need)) >>
                         ELSE << >>
  IN  IF c.len > 0 /\ Len(data) < need
      THEN [counted EXCEPT !.buffer = Stash(@, c.len, data), !.len = @ + Len(data)]
      ELSE [counted EXCEPT
              !.state = @ \o filled \o FullBlocks(rest),
              !.buffer = Stash(IF fills THEN filled[1] ELSE @, 0, Tail_(rest)),
              !.len = Len(Tail_(rest))]

(* The length field, most significant byte first. *)
LengthField(bits) ==
  [i \in 1..LengthLen |-> Byte((bits \div ByteBase^(LengthLen - i)) % ByteBase)]

(* Mutant: the length field may end one byte behind the block. *)
LastBlocksTight(c) ==
  LET marked == Append(SubSeq(c.buffer, 1, c.len), Byte(128))
      room == BlockLen - LengthLen
  IN  IF Len(marked) >= room
      THEN << marked \o Zeros(BlockLen - Len(marked)),
              Zeros(room) \o LengthField(c.bits) >>
      ELSE << marked \o Zeros(room - Len(marked)) \o LengthField(c.bits) >>

(***************************************************************************)
(* cb_sha256_final: the mark, zeros and the length close the last block,   *)
(* or the last two if the length does not fit behind the mark.             *)
(***************************************************************************)
LastBlocks(c) ==
  LET marked == Append(SubSeq(c.buffer, 1, c.len), Byte(128))
      room == BlockLen - LengthLen
  IN  IF Len(marked) > room
      THEN << marked \o Zeros(BlockLen - Len(marked)),
              Zeros(room) \o LengthField(c.bits) >>
      ELSE << marked \o Zeros(room - Len(marked)) \o LengthField(c.bits) >>

DigestOf(blocks) == [i \in 1..DigestLen |-> << "digest", blocks, i >>]

Final(c) == DigestOf(c.state \o LastBlocks(c))

OneShot(data) == Final(Update(NewContext, data))

-----------------------------------------------------------------------------
(* HMAC.                                                                   *)

(* cb__hmac_derive_block_key *)
BlockKey(key) ==
  IF Len(key) > BlockLen THEN OneShot(key) \o Zeros(BlockLen - DigestLen)
                         ELSE key \o Zeros(BlockLen - Len(key))

XorPad(pad, block) == [i \in DOMAIN block |-> << pad, block[i] >>]

OuterFinal(pad, inner) == Final(Update(Update(NewContext, pad), inner))

-----------------------------------------------------------------------------
(* The caller.                                                             *)

CallerInit ==
  /\ mode = "none"
  /\ ctx = Wiped
  /\ outer = Zeros(BlockLen)
  /\ keyLen = 0
  /\ msgLen = 0
  /\ digest = NoDigest

Idle == {"none", "spent hash", "spent hmac"}

HashInit ==
  /\ mode \in Idle
  /\ mode' = "hash"
  /\ ctx' = NewContext
  /\ msgLen' = 0
  /\ digest' = NoDigest
  /\ UNCHANGED << outer, keyLen >>

HmacInit(len) ==
  /\ mode \in Idle
  /\ mode' = "hmac"
  /\ ctx' = Update(NewContext, XorPad("ipad", BlockKey(Key(len))))
  /\ outer' = XorPad("opad", BlockKey(Key(len)))
  /\ keyLen' = len
  /\ msgLen' = 0
  /\ digest' = NoDigest

(* cb_sha256_update, directly or through cb_hmac_sha256_update. *)
Absorb(len) ==
  /\ mode \in {"hash", "hmac"}
  /\ msgLen + len <= MaxMessage
  /\ ctx' = IF len = 0 THEN ctx ELSE Update(ctx, Piece(msgLen, len))
  /\ msgLen' = msgLen + len
  /\ UNCHANGED << mode, outer, keyLen, digest >>

HashFinal ==
  /\ mode = "hash"
  /\ mode' = "spent hash"
  /\ digest' = Final(ctx)
  /\ ctx' = Wiped
  /\ UNCHANGED << outer, keyLen, msgLen >>

HmacFinal ==
  /\ mode = "hmac"
  /\ mode' = "spent hmac"
  /\ digest' = OuterFinal(outer, Final(ctx))
  /\ ctx' = Wiped
  /\ outer' = Zeros(BlockLen)
  /\ UNCHANGED << keyLen, msgLen >>

HmacAbort ==
  /\ mode = "hmac"
  /\ mode' = "none"
  /\ ctx' = Wiped
  /\ outer' = Zeros(BlockLen)
  /\ UNCHANGED << keyLen, msgLen, digest >>

CallerNext ==
  \/ HashInit
  \/ \E len \in KeyLens : HmacInit(len)
  \/ \E len \in 0..MaxPiece : Absorb(len)
  \/ HashFinal
  \/ HmacFinal
  \/ HmacAbort

HashSpec == CallerInit /\ [][CallerNext]_hashVars

-----------------------------------------------------------------------------
Modes == Idle \cup {"hash", "hmac"}

(* Types of the context and the history; a context is never a full block behind. *)
HashTypeOK ==
  /\ mode \in Modes
  /\ DOMAIN ctx.buffer = 1..BlockLen /\ ctx.len \in 0..(BlockLen - 1)
  /\ ctx.bits \in Nat
  /\ keyLen \in KeyLens \cup {0} /\ msgLen \in 0..MaxMessage
  /\ Len(digest) \in {0, DigestLen}

(***************************************************************************)
(* What FIPS 180-4 and RFC 2104 say of a whole message: the padded message *)
(* is the least multiple of a block that holds the message, the mark and   *)
(* the length; the HMAC is two hashes of whole messages.                   *)
(***************************************************************************)
PaddedLen(n) ==
  CHOOSE m \in (n + 1 + LengthLen)..(n + LengthLen + BlockLen) : m % BlockLen = 0

Padded(message) ==
  LET n == Len(message)
  IN  message \o << Byte(128) >> \o Zeros(PaddedLen(n) - n - 1 - LengthLen)
              \o LengthField(8 * n)

HashOf(message) == DigestOf(FullBlocks(Padded(message)))

MacOf(key, message) ==
  LET block == (IF Len(key) <= BlockLen THEN key ELSE HashOf(key))
      whole == block \o Zeros(BlockLen - Len(block))
  IN  HashOf(XorPad("opad", whole) \o HashOf(XorPad("ipad", whole) \o message))

(* What has been absorbed is in the blocks compressed and in the buffer. *)
Absorbed(c) == FlattenSeq(c.state) \o SubSeq(c.buffer, 1, c.len)

(***************************************************************************)
(* The digest, and the HMAC, depend on the message alone, not on how it    *)
(* was cut into updates, for every position of the cuts and of the end     *)
(* within a block; nothing of what was in the buffer before gets in.  On   *)
(* the way the context holds exactly what it was given.  After final or    *)
(* abort nothing of message and key is left.  (cb_sha256_update,           *)
(* cb_sha256_final, cb_hmac_sha256_init, cb_hmac_sha256_final)             *)
(***************************************************************************)
DigestOfWhole ==
  /\ mode = "hash" => Absorbed(ctx) = Piece(0, msgLen)
  /\ mode = "spent hash" => digest = HashOf(Piece(0, msgLen))
  /\ mode = "spent hmac" => digest = MacOf(Key(keyLen), Piece(0, msgLen))
  /\ mode \in Idle =>
       ctx = Wiped /\ outer = Zeros(BlockLen)
=============================================================================
