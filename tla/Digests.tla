------------------------------- MODULE Digests -------------------------------
(***************************************************************************)
(* The message digests of crypto/md2.c, md4.c, md5.c, sha1.c, sha2.c and   *)
(* sha4.c, behind the tables of crypto/md_wrap.c: how a message that comes *)
(* in pieces is cut into blocks, padded and keyed.                         *)
(*                                                                         *)
(* A byte is a tuple whose first part tells where it comes from.  The      *)
(* compression functions are taken to be free: a chaining state is the     *)
(* initial value with the blocks compressed since, so that two digests are *)
(* equal only if they were made from the same blocks by the same algorithm.*)
(* An operation takes the context and returns the new one, and with it, if *)
(* it is a finish, the digest.                                             *)
(***************************************************************************)
EXTENDS Integers, Sequences, SequencesExt

CONSTANTS
  Tiny,    \* MD2: block is 16 bytes in the code
  Narrow,  \* MD4, MD5, SHA-1, SHA-2: block is 64, field 8 bytes, word 2^32
  Wide,    \* SHA-384 and SHA-512: block is 128, field 16 bytes, word 2^64
  Size     \* md_info_t.size: the bytes of a digest

Types == {"MD2", "MD4", "MD5", "SHA1", "SHA224", "SHA256", "SHA384", "SHA512"}

(* A field holds two words; the bit count of a word's bytes fits two words;*)
(* the block is counted by the low bits of the first word.                 *)
FitsTotals(g) ==
  /\ g.block \in Nat /\ g.field \in Nat /\ g.word \in Nat
  /\ g.field < g.block /\ g.block < g.word
  /\ g.field % 2 = 0 /\ g.word % g.block = 0 /\ g.word % 8 = 0

ASSUME DigestsAssumption ==
  /\ Tiny.block \in Nat \ {0}
  /\ FitsTotals(Narrow) /\ FitsTotals(Wide)
  /\ DOMAIN Size = Types
  /\ \A t \in Types \ {"MD2", "SHA384", "SHA512"} : Size[t] \in 1 .. Narrow.block
  /\ Size["MD2"] \in 1 .. Tiny.block
  /\ Size["SHA384"] \in 1 .. Wide.block /\ Size["SHA512"] \in 1 .. Wide.block

-----------------------------------------------------------------------------
(* Bytes.                                                                  *)
Zero == <<"pad", 0>>
Padding(n) == [i \in 1 .. n |-> IF i = 1 THEN <<"pad", 128>> ELSE Zero]
Digest(type, state) == [i \in 1 .. Size[type] |-> <<"digest", type, state, i>>]

(* The bytes of a word, the i-th most significant one of each. *)
BigEndian(g, high, low) ==
  LET n == g.field \div 2 IN
  [i \in 1 .. g.field |-> IF i <= n THEN <<"length", high, i>>
                                    ELSE <<"length", low, i - n>>]
LittleEndian(g, high, low) == Reverse(BigEndian(g, high, low))

(* memcpy into a buffer, behind its first "at" bytes. *)
Copied(buffer, at, bytes) ==
  [i \in DOMAIN buffer |->
     IF i \in at + 1 .. at + Len(bytes) THEN bytes[i - at] ELSE buffer[i]]

Blocks(size, bytes) ==
  [b \in 1 .. Len(bytes) \div size |-> SubSeq(bytes, (b - 1) * size + 1, b * size)]

-----------------------------------------------------------------------------
(* The functions that the files have in common but for their numbers.      *)

(* sha1_starts and its like leave the buffer and the pads alone. *)
Starts(ctx, iv) == [ctx EXCEPT !.total = <<0, 0>>, !.state = <<iv>>]

(* Fault: the carry into the second word is forgotten. *)
CountedWithoutCarry(g, total, ilen) == <<(total[1] + ilen) % g.word, total[2]>>

(* The bytes so far, in two words, with the carry as the code finds it. *)
Counted(g, total, ilen) ==
  LET low == (total[1] + ilen) % g.word IN
  <<low, IF low < ilen % g.word THEN (total[2] + 1) % g.word ELSE total[2]>>

(* The loop over whole blocks. *)
Compressed(Process(_, _), state, blocks) ==
  LET after[n \in 0 .. Len(blocks)] ==
        IF n = 0 THEN state ELSE Process(after[n - 1], blocks[n])
  IN  after[Len(blocks)]

(* First the buffer is filled up and compressed, if the input is enough    *)
(* for that, then whole blocks straight from the input, and what remains   *)
(* is copied to the buffer.                                                *)
Update(g, Process(_, _), ctx, input) ==
  LET left  == ctx.total[1] % g.block
      fill  == g.block - left
      joins == left # 0 /\ Len(input) >= fill
      full  == Copied(ctx.buffer, left, SubSeq(input, 1, fill))
      rest  == IF joins THEN SubSeq(input, fill + 1, Len(input)) ELSE input
      done  == (Len(rest) \div g.block) * g.block
  IN [ctx EXCEPT
        !.total  = Counted(g, @, Len(input)),
        !.state  = Compressed(Process, IF joins THEN Process(@, full) ELSE @,
                              Blocks(g.block, rest)),
        !.buffer = Copied(IF joins THEN full ELSE @, IF joins THEN 0 ELSE left,
                          SubSeq(rest, done + 1, Len(rest)))]

(* The number of bytes in bits, over two words. *)
High(g, total) == ((8 * total[1]) \div g.word) + ((8 * total[2]) % g.word)
Low(g, total) == (8 * total[1]) % g.word

(* Fault: a message that ends right before the length field gets a block   *)
(* too many.                                                               *)
PadCountOffByOne(g, total) ==
  LET last == total[1] % g.block
      room == g.block - g.field
  IN IF last < room - 1 THEN room - last ELSE room + g.block - last

(* The padding reaches up to the length field of this block or the next.   *)
PadCount(g, total) ==
  LET last == total[1] % g.block
      room == g.block - g.field
  IN IF last < room THEN room - last ELSE room + g.block - last

Padded(g, Upd(_, _), Field(_, _, _), ctx) ==
  Upd(Upd(ctx, Padding(PadCount(g, ctx.total))),
      Field(g, High(g, ctx.total), Low(g, ctx.total)))

(* What is returned by a finish. *)
Finished(ctx, type) == [ctx |-> ctx, output |-> Digest(type, ctx.state)]

Key(block, Whole(_), key) == IF Len(key) > block THEN Whole(key) ELSE key

(* A byte of a pad, combined with the byte of the key at its place. *)
Pad(name, block, key) ==
  [i \in 1 .. block |-> <<name, IF i <= Len(key) THEN key[i] ELSE Zero>>]
Keyed(ctx, block, key) ==
  [ctx EXCEPT !.ipad = Pad("ipad", block, key), !.opad = Pad("opad", block, key)]

HmacFinish(Begin(_), Upd(_, _), Fin(_), ctx) ==
  LET inner == Fin(ctx) IN Fin(Upd(Upd(Begin(inner.ctx), ctx.opad), inner.output))

(* A context as malloc returns it: what is in it is no byte of anybody. *)
Garbage(block) ==
  [total |-> <<0, 0>>, left |-> 0, variant |-> "SHA256", state |-> <<>>, cksum |-> <<>>,
   buffer |-> [i \in 1 .. block |-> <<"garbage", i>>],
   ipad |-> [i \in 1 .. block |-> <<"garbage", i>>],
   opad |-> [i \in 1 .. block |-> <<"garbage", i>>]]

-----------------------------------------------------------------------------
(* MD2: it counts the bytes in its buffer only, pads always, and ends with *)
(* a block of checksum.                                                    *)
Md2Starts(ctx) ==
  [ctx EXCEPT !.cksum = <<>>, !.state = <<"MD2">>, !.left = 0,
              !.buffer = [i \in 1 .. Tiny.block |-> Zero]]

Md2Process(ctx) ==
  [ctx EXCEPT !.state = Append(@, ctx.buffer), !.cksum = Append(@, ctx.buffer)]

(* Fault: a full buffer waits for the next byte. *)
Md2FillLate(ctx, bytes) ==
  LET filled == [ctx EXCEPT !.buffer = Copied(@, ctx.left, bytes)] IN
  IF ctx.left + Len(bytes) > Tiny.block
    THEN [Md2Process(filled) EXCEPT !.left = 0]
    ELSE [filled EXCEPT !.left = @ + Len(bytes)]

(* Bytes that fit into the buffer. *)
Md2Fill(ctx, bytes) ==
  LET filled == [ctx EXCEPT !.buffer = Copied(@, ctx.left, bytes)] IN
  IF ctx.left + Len(bytes) = Tiny.block
    THEN [Md2Process(filled) EXCEPT !.left = 0]
    ELSE [filled EXCEPT !.left = @ + Len(bytes)]

(* One round of the loop: as many of the bytes left as fit. *)
Md2Round(at, input) ==
  LET left == at.ctx.left
      ilen == Len(input) - at.taken
      fill == IF left + ilen > Tiny.block THEN Tiny.block - left ELSE ilen
  IN [ctx   |-> Md2Fill(at.ctx, SubSeq(input, at.taken + 1, at.taken + fill)),
      taken |-> at.taken + fill]

(* A round that is not the last one takes a byte at least. *)
Md2Update(ctx, input) ==
  LET after[n \in 0 .. Len(input)] ==
        IF n = 0 THEN [ctx |-> ctx, taken |-> 0]
        ELSE IF after[n - 1].taken = Len(input) THEN after[n - 1]
        ELSE Md2Round(after[n - 1], input)
  IN  after[Len(input)].ctx

Md2Checksum(cksum) == [i \in 1 .. Tiny.block |-> <<"cksum", cksum, i>>]

Md2Finish(ctx) ==
  LET x    == Tiny.block - ctx.left
      full == Md2Process([ctx EXCEPT
                !.buffer = Copied(@, ctx.left, [i \in 1 .. x |-> <<"pad", x>>])])
      end  == Md2Process([full EXCEPT !.buffer = Md2Checksum(full.cksum)])
  IN Finished(end, "MD2")

Md2(input) == Md2Finish(Md2Update(Md2Starts(Garbage(Tiny.block)), input)).output
Md2HmacReset(ctx) == Md2Update(Md2Starts(ctx), ctx.ipad)
Md2HmacStarts(ctx, key) ==
  Md2HmacReset(Keyed(ctx, Tiny.block, Key(Tiny.block, Md2, key)))
Md2HmacUpdate(ctx, input) == Md2Update(ctx, input)
Md2HmacFinish(ctx) == HmacFinish(Md2Starts, Md2Update, Md2Finish, ctx)
Md2Hmac(key, input) ==
  Md2HmacFinish(Md2HmacUpdate(Md2HmacStarts(Garbage(Tiny.block), key), input)).output

-----------------------------------------------------------------------------
(* MD4 *)
Md4Starts(ctx) == Starts(ctx, "MD4")
Md4Process(state, data) == Append(state, data)
Md4Update(ctx, input) == Update(Narrow, Md4Process, ctx, input)
Md4Finish(ctx) == Finished(Padded(Narrow, Md4Update, LittleEndian, ctx), "MD4")
Md4(input) == Md4Finish(Md4Update(Md4Starts(Garbage(Narrow.block)), input)).output
Md4HmacReset(ctx) == Md4Update(Md4Starts(ctx), ctx.ipad)
Md4HmacStarts(ctx, key) ==
  Md4HmacReset(Keyed(ctx, Narrow.block, Key(Narrow.block, Md4, key)))
Md4HmacUpdate(ctx, input) == Md4Update(ctx, input)
Md4HmacFinish(ctx) == HmacFinish(Md4Starts, Md4Update, Md4Finish, ctx)
Md4Hmac(key, input) ==
  Md4HmacFinish(Md4HmacUpdate(Md4HmacStarts(Garbage(Narrow.block), key), input)).output

-----------------------------------------------------------------------------
(* MD5 *)
Md5Starts(ctx) == Starts(ctx, "MD5")
Md5Process(state, data) == Append(state, data)
Md5Update(ctx, input) == Update(Narrow, Md5Process, ctx, input)
Md5Finish(ctx) == Finished(Padded(Narrow, Md5Update, LittleEndian, ctx), "MD5")
Md5(input) == Md5Finish(Md5Update(Md5Starts(Garbage(Narrow.block)), input)).output
Md5HmacReset(ctx) == Md5Update(Md5Starts(ctx), ctx.ipad)
Md5HmacStarts(ctx, key) ==
  Md5HmacReset(Keyed(ctx, Narrow.block, Key(Narrow.block, Md5, key)))
Md5HmacUpdate(ctx, input) == Md5Update(ctx, input)
Md5HmacFinish(ctx) == HmacFinish(Md5Starts, Md5Update, Md5Finish, ctx)
Md5Hmac(key, input) ==
  Md5HmacFinish(Md5HmacUpdate(Md5HmacStarts(Garbage(Narrow.block), key), input)).output

-----------------------------------------------------------------------------
(* SHA-1 *)
Sha1Starts(ctx) == Starts(ctx, "SHA1")
Sha1Process(state, data) == Append(state, data)
Sha1Update(ctx, input) == Update(Narrow, Sha1Process, ctx, input)
Sha1Finish(ctx) == Finished(Padded(Narrow, Sha1Update, BigEndian, ctx), "SHA1")
Sha1(input) == Sha1Finish(Sha1Update(Sha1Starts(Garbage(Narrow.block)), input)).output
Sha1HmacReset(ctx) == Sha1Update(Sha1Starts(ctx), ctx.ipad)
Sha1HmacStarts(ctx, key) ==
  Sha1HmacReset(Keyed(ctx, Narrow.block, Key(Narrow.block, Sha1, key)))
Sha1HmacUpdate(ctx, input) == Sha1Update(ctx, input)
Sha1HmacFinish(ctx) == HmacFinish(Sha1Starts, Sha1Update, Sha1Finish, ctx)
Sha1Hmac(key, input) ==
  Sha1HmacFinish(Sha1HmacUpdate(Sha1HmacStarts(Garbage(Narrow.block), key), input)).output

-----------------------------------------------------------------------------
(* SHA-224 and SHA-256: one context that remembers which of the two it is, *)
(* because the HMAC has to start it again.                                 *)
Sha2Starts(ctx, variant) == Starts([ctx EXCEPT !.variant = variant], variant)
Sha2Process(state, data) == Append(state, data)
Sha2Update(ctx, input) == Update(Narrow, Sha2Process, ctx, input)
Sha2Finish(ctx) == Finished(Padded(Narrow, Sha2Update, BigEndian, ctx), ctx.variant)
Sha2(input, variant) ==
  Sha2Finish(Sha2Update(Sha2Starts(Garbage(Narrow.block), variant), input)).output
(* Fault: the context's variant is not looked at. *)
Sha2HmacResetAs256(ctx) == Sha2Update(Sha2Starts(ctx, "SHA256"), ctx.ipad)

Sha2HmacReset(ctx) == Sha2Update(Sha2Starts(ctx, ctx.variant), ctx.ipad)
Sha2HmacStarts(ctx, key, variant) ==
  LET k == Key(Narrow.block, LAMBDA i : Sha2(i, variant), key) IN
  Sha2Update(Sha2Starts(Keyed(ctx, Narrow.block, k), variant),
             Pad("ipad", Narrow.block, k))
Sha2HmacUpdate(ctx, input) == Sha2Update(ctx, input)
Sha2HmacFinish(ctx) ==
  HmacFinish(LAMBDA c : Sha2Starts(c, ctx.variant), Sha2Update, Sha2Finish, ctx)
Sha2Hmac(key, input, variant) ==
  Sha2HmacFinish(Sha2HmacUpdate(
    Sha2HmacStarts(Garbage(Narrow.block), key, variant), input)).output

-----------------------------------------------------------------------------
(* SHA-384 and SHA-512 *)
Sha4Starts(ctx, variant) == Starts([ctx EXCEPT !.variant = variant], variant)
Sha4Process(state, data) == Append(state, data)
Sha4Update(ctx, input) == Update(Wide, Sha4Process, ctx, input)
Sha4Finish(ctx) == Finished(Padded(Wide, Sha4Update, BigEndian, ctx), ctx.variant)
Sha4(input, variant) ==
  Sha4Finish(Sha4Update(Sha4Starts(Garbage(Wide.block), variant), input)).output
Sha4HmacReset(ctx) == Sha4Update(Sha4Starts(ctx, ctx.variant), ctx.ipad)
Sha4HmacStarts(ctx, key, variant) ==
  LET k == Key(Wide.block, LAMBDA i : Sha4(i, variant), key) IN
  Sha4Update(Sha4Starts(Keyed(ctx, Wide.block, k), variant), Pad("ipad", Wide.block, k))
Sha4HmacUpdate(ctx, input) == Sha4Update(ctx, input)
Sha4HmacFinish(ctx) ==
  HmacFinish(LAMBDA c : Sha4Starts(c, ctx.variant), Sha4Update, Sha4Finish, ctx)
Sha4Hmac(key, input, variant) ==
  Sha4HmacFinish(Sha4HmacUpdate(
    Sha4HmacStarts(Garbage(Wide.block), key, variant), input)).output

=============================================================================
