------------------------------ MODULE MdContext ------------------------------
(***************************************************************************)
(* The generic interface of crypto/md.c to the digests: a context that a   *)
(* caller initialises, starts, feeds in pieces of any length, finishes and *)
(* frees, with a key or without one; and crypto/CryptoHash.cpp on top of   *)
(* it, in a build without OpenSSL.                                         *)
(***************************************************************************)
EXTENDS Digests

CONSTANTS
  MessageBound,  \* MessageBound[t]: bound on the length of a message
  PieceLengths,  \* the lengths of pieces that are tried
  PieceBound,    \* bound on the pieces of a message
  StartBound,    \* bound on the messages of a context
  KeyLengths     \* the lengths of keys that are tried

(* In one call a context is given less than a word counts, 4 GiB in the   *)
(* code: the carry of a longer call is lost.                               *)
ASSUME PiecesAssumption ==
  \A n \in PieceLengths \cup KeyLengths :
    n \in Nat /\ n < Narrow.word /\ n < Wide.word

(* The standards define digests of up to 2^64 bits only, 2^128 for SHA-384 *)
(* and SHA-512; a block of a keyed digest's pad counts.                    *)
FitsStandard(g, bound) ==
  /\ bound \in Nat
  /\ 8 * (bound + g.block) < g.word * g.word
  /\ 16 * g.block < g.word * g.word

ASSUME LengthsAssumption ==
  /\ DOMAIN MessageBound = Types
  /\ MessageBound["MD2"] \in Nat
  /\ \A t \in {"MD4", "MD5", "SHA1", "SHA224", "SHA256"} :
       FitsStandard(Narrow, MessageBound[t])
  /\ \A t \in {"SHA384", "SHA512"} : FitsStandard(Wide, MessageBound[t])

VARIABLES
  info,     \* ctx->md_info: the algorithm, or NoInfo
  alive,    \* ctx->md_ctx is not NULL
  mdctx,    \* *ctx->md_ctx
  ret,      \* the value that the last call returned
  mode,     \* history: what the context is used for since it was started
  message,  \* history: the bytes that it was fed since then
  key,      \* history: the key of the last md_hmac_starts
  keyed,    \* history: md_hmac_starts has been called
  result,   \* history: the last digest, with what it was made for
  pieces,   \* number of pieces of the message so far
  starts    \* number of messages of the context so far

context == <<info, alive, mdctx>>
history == <<mode, message, key, keyed, result>>
counts == <<pieces, starts>>
vars == <<context, ret, history, counts>>

NoInfo == "NULL"
NoResult == [of |-> "none", type |-> NoInfo, key |-> <<>>, message |-> <<>>, output |-> <<>>]

-----------------------------------------------------------------------------
(* The tables of function pointers of md_wrap.c, as one operator for each  *)
(* algorithm.                                                              *)
Kept(ctx) == [ctx |-> ctx, output |-> <<>>]
Gives(output) == [ctx |-> <<>>, output |-> output]

Wrapped(op, ctx, arg, S(_), U(_, _), F(_), W(_), HS(_, _), HU(_, _), HF(_), HR(_), H(_, _)) ==
  CASE op = "starts"      -> Kept(S(ctx))
    [] op = "update"      -> Kept(U(ctx, arg))
    [] op = "finish"      -> F(ctx)
    [] op = "digest"      -> Gives(W(arg))
    [] op = "hmac_starts" -> Kept(HS(ctx, arg))
    [] op = "hmac_update" -> Kept(HU(ctx, arg))
    [] op = "hmac_finish" -> HF(ctx)
    [] op = "hmac_reset"  -> Kept(HR(ctx))
    [] op = "hmac"        -> Gives(H(arg[1], arg[2]))
    [] op = "ctx_alloc"   -> Kept(Garbage(arg))

Md2Info(op, ctx, arg) ==
  Wrapped(op, ctx, arg, Md2Starts, Md2Update, Md2Finish, Md2, Md2HmacStarts,
          Md2HmacUpdate, Md2HmacFinish, Md2HmacReset, Md2Hmac)
Md4Info(op, ctx, arg) ==
  Wrapped(op, ctx, arg, Md4Starts, Md4Update, Md4Finish, Md4, Md4HmacStarts,
          Md4HmacUpdate, Md4HmacFinish, Md4HmacReset, Md4Hmac)
Md5Info(op, ctx, arg) ==
  Wrapped(op, ctx, arg, Md5Starts, Md5Update, Md5Finish, Md5, Md5HmacStarts,
          Md5HmacUpdate, Md5HmacFinish, Md5HmacReset, Md5Hmac)
Sha1Info(op, ctx, arg) ==
  Wrapped(op, ctx, arg, Sha1Starts, Sha1Update, Sha1Finish, Sha1, Sha1HmacStarts,
          Sha1HmacUpdate, Sha1HmacFinish, Sha1HmacReset, Sha1Hmac)

(* SHA-224 to SHA-512 fix the last argument of the functions they share. *)
Sha2Info(v, op, ctx, arg) ==
  Wrapped(op, ctx, arg, LAMBDA c : Sha2Starts(c, v), Sha2Update, Sha2Finish,
          LAMBDA i : Sha2(i, v), LAMBDA c, k : Sha2HmacStarts(c, k, v),
          Sha2HmacUpdate, Sha2HmacFinish, Sha2HmacReset, LAMBDA k, i : Sha2Hmac(k, i, v))
Sha4Info(v, op, ctx, arg) ==
  Wrapped(op, ctx, arg, LAMBDA c : Sha4Starts(c, v), Sha4Update, Sha4Finish,
          LAMBDA i : Sha4(i, v), LAMBDA c, k : Sha4HmacStarts(c, k, v),
          Sha4HmacUpdate, Sha4HmacFinish, Sha4HmacReset, LAMBDA k, i : Sha4Hmac(k, i, v))
Sha224Info(op, ctx, arg) == Sha2Info("SHA224", op, ctx, arg)
Sha256Info(op, ctx, arg) == Sha2Info("SHA256", op, ctx, arg)
Sha384Info(op, ctx, arg) == Sha4Info("SHA384", op, ctx, arg)

(* Fault: the table of SHA-512 has the one-shot function of SHA-384. *)
Sha512InfoAs384(op, ctx, arg) ==
  Sha4Info(IF op = "digest" THEN "SHA384" ELSE "SHA512", op, ctx, arg)
Sha512Info(op, ctx, arg) == Sha4Info("SHA512", op, ctx, arg)

MdInfoFromType(type, op, ctx, arg) ==
  CASE type = "MD2"    -> Md2Info(op, ctx, arg)
    [] type = "MD4"    -> Md4Info(op, ctx, arg)
    [] type = "MD5"    -> Md5Info(op, ctx, arg)
    [] type = "SHA1"   -> Sha1Info(op, ctx, arg)
    [] type = "SHA224" -> Sha224Info(op, ctx, arg)
    [] type = "SHA256" -> Sha256Info(op, ctx, arg)
    [] type = "SHA384" -> Sha384Info(op, ctx, arg)
    [] type = "SHA512" -> Sha512Info(op, ctx, arg)

BlockOf(type) == CASE type = "MD2" -> Tiny.block
                   [] type \in {"SHA384", "SHA512"} -> Wide.block
                   [] OTHER -> Narrow.block

(* The one-shot functions. *)
Md(type, input) == MdInfoFromType(type, "digest", <<>>, input).output
MdHmac(type, k, input) == MdInfoFromType(type, "hmac", <<>>, <<k, input>>).output

-----------------------------------------------------------------------------
Init ==
  /\ info = NoInfo
  /\ alive = FALSE
  /\ mdctx = Garbage(Narrow.block)
  /\ ret = "ok"
  /\ mode = "none"
  /\ message = <<>>
  /\ key = <<>>
  /\ keyed = FALSE
  /\ result = NoResult
  /\ pieces = 0
  /\ starts = 0

(* A name is looked up without regard to its case; "sha" is another name   *)
(* of "sha1", and any other name has no algorithm.                         *)
Names == Types \cup {"SHA", "other"}
MdInfoFromString(name) ==
  CASE name \in Types -> name
    [] name = "SHA" -> "SHA1"
    [] OTHER -> NoInfo

Allocated(type) == MdInfoFromType(type, "ctx_alloc", <<>>, BlockOf(type)).ctx

(* md_init_ctx, of a context that is new or was freed.  Without memory it  *)
(* is left with nothing in it.                                             *)
MdInitCtx(type) ==
  /\ ~alive
  /\ type # NoInfo
  /\ \/ /\ info' = type
        /\ alive' = TRUE
        /\ mdctx' = MdInfoFromType(type, "starts", Allocated(type), <<>>).ctx
        /\ ret' = "ok"
        /\ mode' = "plain"
     \/ /\ info' = NoInfo
        /\ ret' = "alloc_failed"
        /\ mode' = "none"
        /\ UNCHANGED <<alive, mdctx>>
  /\ message' = <<>>
  /\ key' = <<>>
  /\ keyed' = FALSE
  /\ result' = NoResult
  /\ pieces' = 0
  /\ starts' = 0

(* A name without an algorithm, and every other call on a context without  *)
(* md_info.                                                                *)
Refused(type) ==
  /\ ~alive
  /\ type = NoInfo
  /\ ret' = "bad_input_data"
  /\ UNCHANGED <<context, history, counts>>

(* md_free_ctx leaves md_info in the context. *)
MdFreeCtx ==
  /\ alive
  /\ alive' = FALSE
  /\ mdctx' = Garbage(Narrow.block)
  /\ ret' = "ok"
  /\ mode' = "none"
  /\ message' = <<>>
  /\ result' = NoResult
  /\ UNCHANGED <<info, key, keyed, counts>>

Called(op, arg) == MdInfoFromType(info, op, mdctx, arg)
Changes(op, arg) ==
  /\ alive
  /\ mdctx' = Called(op, arg).ctx
  /\ ret' = "ok"
  /\ UNCHANGED <<info, alive>>

(* Another message. *)
StartsAnew ==
  /\ starts < StartBound
  /\ starts' = starts + 1
  /\ pieces' = 0
  /\ message' = <<>>
  /\ result' = NoResult

MdStarts ==
  /\ Changes("starts", <<>>)
  /\ mode' = "plain"
  /\ StartsAnew
  /\ UNCHANGED <<key, keyed>>

(* The next n bytes of the message. *)
Bytes(n) == [i \in 1 .. n |-> <<"message", Len(message) + i>>]

(* A caller feeds a context that was started. *)
Feeds(n) ==
  /\ Len(message) + n <= MessageBound[info]
  /\ pieces < PieceBound
  /\ pieces' = pieces + 1
  /\ message' = message \o Bytes(n)
  /\ result' = NoResult
  /\ UNCHANGED <<mode, key, keyed, starts>>

MdUpdate(n) ==
  /\ alive
  /\ mode = "plain"
  /\ Feeds(n)
  /\ Changes("update", Bytes(n))

MdFinish ==
  /\ mode = "plain"
  /\ Changes("finish", <<>>)
  /\ mode' = "none"
  /\ result' = [of |-> "digest", type |-> info, key |-> <<>>, message |-> message,
                output |-> Called("finish", <<>>).output]
  /\ message' = <<>>
  /\ UNCHANGED <<key, keyed, counts>>

MdHmacStarts(n) ==
  LET k == [i \in 1 .. n |-> <<"key", i>>] IN
  /\ Changes("hmac_starts", k)
  /\ mode' = "hmac"
  /\ key' = k
  /\ keyed' = TRUE
  /\ StartsAnew

MdHmacUpdate(n) ==
  /\ alive
  /\ mode = "hmac"
  /\ Feeds(n)
  /\ Changes("hmac_update", Bytes(n))

MdHmacFinish ==
  /\ mode = "hmac"
  /\ Changes("hmac_finish", <<>>)
  /\ mode' = "none"
  /\ result' = [of |-> "hmac", type |-> info, key |-> key, message |-> message,
                output |-> Called("hmac_finish", <<>>).output]
  /\ message' = <<>>
  /\ UNCHANGED <<key, keyed, counts>>

(* The pads are still there, whatever the context was used for since.      *)
MdHmacReset ==
  /\ keyed
  /\ Changes("hmac_reset", <<>>)
  /\ mode' = "hmac"
  /\ StartsAnew
  /\ UNCHANGED <<key, keyed>>

Next ==
  \/ \E name \in Names :
       MdInitCtx(MdInfoFromString(name)) \/ Refused(MdInfoFromString(name))
  \/ Refused(info)
  \/ MdFreeCtx \/ MdStarts \/ MdFinish \/ MdHmacFinish \/ MdHmacReset
  \/ \E n \in PieceLengths : MdUpdate(n) \/ MdHmacUpdate(n)
  \/ \E n \in KeyLengths : MdHmacStarts(n)

Spec == Init /\ [][Next]_vars

-----------------------------------------------------------------------------
(* CryptoHash::hash of a string or of an array of bytes. *)
Hash(type, data) == Md(type, data)

(* hash of a stream: the loop asks for a result of 1 and md_starts, like   *)
(* all of md.c, returns 0 for success, so that no byte is ever read.       *)
HashStream(type, in) ==
  LET Op(op, ctx, arg) == MdInfoFromType(type, op, ctx, arg)
      started == Op("starts", Allocated(type), <<>>).ctx
      result0 == 0
  IN Op("finish", IF result0 = 1 THEN Op("update", started, in).ctx ELSE started, <<>>).output

-----------------------------------------------------------------------------
(* The standards (RFC 1319, 1320, 1321 and FIPS 180), as they define the   *)
(* blocks of a whole message, and RFC 2104.                                *)
Geometry(type) == CASE type = "MD2" -> Tiny
                    [] type \in {"SHA384", "SHA512"} -> Wide
                    [] OTHER -> Narrow

PaddedMessage(type, m) ==
  LET g == Geometry(type)
      n == Len(m)
      z == CHOOSE i \in 0 .. g.block - 1 : (n + 1 + i + g.field) % g.block = 0
      Field(i) == LET w == g.field \div 2 IN
                  IF i <= w THEN <<"length", (8 * n) \div g.word, i>>
                            ELSE <<"length", (8 * n) % g.word, i - w>>
      field == [i \in 1 .. g.field |->
                  IF type \in {"MD4", "MD5"} THEN Field(g.field + 1 - i) ELSE Field(i)]
  IN m \o <<<<"pad", 128>>>> \o [i \in 1 .. z |-> <<"pad", 0>>] \o field

PaddedMd2(m) ==
  LET x == Tiny.block - (Len(m) % Tiny.block) IN m \o [i \in 1 .. x |-> <<"pad", x>>]

StandardDigest(type, m) ==
  IF type = "MD2"
    THEN LET blocks == Blocks(Tiny.block, PaddedMd2(m)) IN
         Digest("MD2", <<"MD2">> \o Append(blocks, Md2Checksum(blocks)))
    ELSE Digest(type, <<type>> \o Blocks(Geometry(type).block, PaddedMessage(type, m)))

StandardKey(type, k) ==
  IF Len(k) > Geometry(type).block THEN StandardDigest(type, k) ELSE k
StandardHmac(type, k, m) ==
  LET b == Geometry(type).block
      kk == StandardKey(type, k)
  IN StandardDigest(type, Pad("opad", b, kk) \o
       StandardDigest(type, Pad("ipad", b, kk) \o m))

-----------------------------------------------------------------------------
Contexts(type) == DOMAIN Garbage(BlockOf(type))

(* The context that md_init_ctx allocates keeps the form of its algorithm:  *)
(* a buffer of one block, never full between calls, and states that whole  *)
(* blocks have gone into.                                                  *)
TypeOK ==
  /\ info \in Types \cup {NoInfo}
  /\ alive \in BOOLEAN
  /\ alive => /\ info \in Types
              /\ DOMAIN mdctx = Contexts(info)
              /\ Len(mdctx.buffer) = BlockOf(info)
              /\ mdctx.left \in 0 .. BlockOf(info) - 1
              /\ \A i \in DOMAIN mdctx.state \ {1} : Len(mdctx.state[i]) = BlockOf(info)
  /\ ret \in {"ok", "bad_input_data", "alloc_failed"}
  /\ mode \in {"none", "plain", "hmac"}

(* What a context has to take in. *)
Fed == IF mode = "hmac"
         THEN Pad("ipad", BlockOf(info), StandardKey(info, key)) \o message
         ELSE message

(* However a message is cut into calls of update, at the end of a block or *)
(* not, in more pieces or fewer: the context has taken in each of its      *)
(* bytes once and in order, and counts them, over both words.              *)
ContextHoldsMessage ==
  alive /\ mode # "none" =>
    LET n    == Len(Fed)
        rest == n % BlockOf(info)
    IN /\ mdctx.state = <<info>> \o Blocks(BlockOf(info), Fed)
       /\ SubSeq(mdctx.buffer, 1, rest) = SubSeq(Fed, n - rest + 1, n)
       /\ IF info = "MD2" THEN mdctx.left = rest
          ELSE mdctx.total[2] * Geometry(info).word + mdctx.total[1] = n

(* The digest is the one that the standard defines for the whole message,  *)
(* also where the padding just fits, or does not fit, into the last block, *)
(* and when the context was used for something else before.                *)
DigestIsStandard ==
  result.of = "digest" =>
    result.output = StandardDigest(result.type, result.message)

(* The same with a key: for keys shorter than, as long as and longer than  *)
(* a block, and for a second message under the same key after a reset.     *)
HmacIsStandard ==
  result.of = "hmac" =>
    result.output = StandardHmac(result.type, result.key, result.message)

(* The one-shot functions, which CryptoHash uses for the keys of a set,    *)
(* agree with the standard and so with the streaming functions.            *)
OneShotAgrees ==
  alive /\ Len(message) \in PieceLengths =>
    /\ mode = "plain" => Hash(info, message) = StandardDigest(info, message)
    /\ mode = "hmac" => MdHmac(info, key, message) = StandardHmac(info, key, message)

(* CryptoHash.h (56): hash "hashes the given input stream into the given   *)
(* target_md buffer". *)
StreamIsHashed ==
  alive /\ mode = "plain" /\ Len(message) \in PieceLengths =>
    HashStream(info, message) = StandardDigest(info, message)

=============================================================================
