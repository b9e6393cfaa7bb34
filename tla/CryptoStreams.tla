--------------------------- MODULE CryptoStreams ----------------------------
(***************************************************************************)
(* The functions of CryptoAuthLib that take a message in pieces: SHA-1 and  *)
(* SHA-256 on the host (crypto/hashes), and on the device SHA-256 and HMAC  *)
(* (basic/atca_basic_sha.c) and AES in the modes CBC, CTR, CMAC and GCM      *)
(* (basic/atca_basic_aes*.c).                                              *)
(*                                                                         *)
(* Messages are sequences of bytes.  What the code sends to the device is a *)
(* field `calls' of the outcome; a call that fails ends the function with    *)
(* its status, before it has counted anything of the message.              *)
(***************************************************************************)
EXTENDS Integers, Sequences, SequencesExt, Bitwise

CONSTANTS
  Engine(_, _),  \* what a block of 64 bytes makes of the state of a hash, which
                 \* is the empty sequence at first
  Encrypt(_),    \* of a block of 16 bytes by the key in use, external
  Decrypt(_),
  Gfm(_, _)      \* the device's multiplication by H, external

Zeros(n) == [i \in 1..n |-> 0]
Slice(s, first, n) == SubSeq(s, first + 1, first + n)
Mixed(s, t) == [i \in DOMAIN s |-> s[i] ^^ t[i]]
Word(n) == <<n \div 16777216, (n \div 65536) % 256, (n \div 256) % 256, n % 256>>
\* The number of bits in n bytes, in 32 bits.
BitCount(n) == <<(n \div 2097152) % 256, (n \div 8192) % 256, (n \div 32) % 256,
                 (n % 32) * 8>>
Blocks(s, size) == [b \in 1..(Len(s) \div size) |-> Slice(s, (b - 1) * size, size)]

\* The buffered part of a block is filled up first; only then are whole blocks
\* taken from the data and what is left is buffered.
Take(block, data, size) ==
  LET rem_size == size - Len(block)
      copy_size == IF Len(data) > rem_size THEN rem_size ELSE Len(data)
      first == block \o Slice(data, 0, copy_size)
      data_size == Len(data) - copy_size
      block_count == data_size \div size
  IN  IF Len(block) + Len(data) < size THEN [blocks |-> <<>>, block |-> first]
      ELSE [blocks |-> <<first>> \o Blocks(Slice(data, copy_size, block_count * size), size),
            block |-> Slice(data, copy_size + block_count * size, data_size % size)]
-----------------------------------------------------------------------------
(* SHA-1.  Len(buf) is the number of bytes buffered, byteCount all of them.  *)

CL_hashInit == [h |-> <<>>, buf |-> <<>>, byteCount |-> 0]

CL_hashUpdate(ctx, src) ==
  LET taken == Take(ctx.buf, src, 64)
  IN  [h |-> FoldLeft(Engine, ctx.h, taken.blocks), buf |-> taken.block,
       byteCount |-> ctx.byteCount + Len(src)]

\* The length needs eight bytes after the one that ends the message: with more
\* than 55 bytes in the last block there is another one.
CL_hashFinal(ctx) ==
  LET last == ctx.buf \o <<128>> \o Zeros(63 - Len(ctx.buf))
      more == Len(ctx.buf) > 55
      h == IF more THEN Engine(ctx.h, last) ELSE ctx.h
      block == (IF more THEN Zeros(56) ELSE Slice(last, 0, 56))
                 \o Word(ctx.byteCount \div 536870912) \o BitCount(ctx.byteCount)
  IN  Engine(h, block)

atcac_sw_sha1(data) == CL_hashFinal(CL_hashUpdate(CL_hashInit, data))
-----------------------------------------------------------------------------
(* SHA-256.                                                                *)

sw_sha256_init == [hash |-> <<>>, block |-> <<>>, total |-> 0]

sw_sha256_update(ctx, msg) ==
  LET taken == Take(ctx.block, msg, 64)
  IN  [hash |-> FoldLeft(Engine, ctx.hash, taken.blocks), block |-> taken.block,
       total |-> ctx.total + 64 * Len(taken.blocks)]

\* The end of the message: a bit, zeros, and its length in bits, which has four
\* bytes of its own and four that are zero.
Padding(block, total) ==
  LET pad_zero_count == (64 - ((Len(block) + 9) % 64)) % 64
  IN  block \o <<128>> \o Zeros(pad_zero_count + 4) \o BitCount(total + Len(block))

sw_sha256_final(ctx) ==
  FoldLeft(Engine, ctx.hash, Blocks(Padding(ctx.block, ctx.total), 64))

atcac_sw_sha2_256(data) == sw_sha256_final(sw_sha256_update(sw_sha256_init, data))
-----------------------------------------------------------------------------
(* SHA-256 and HMAC on the device.                                         *)

Call(mode, param2, data) == [mode |-> mode, param2 |-> param2, data |-> data]
Failure(status) == [status |-> status]
Outcome(ctx, calls) == [status |-> "SUCCESS", ctx |-> ctx, calls |-> calls]

\* The two modes without a message use the length for something else.
atcab_sha_base(mode, length, message) ==
  IF mode \notin {"PUBLIC", "HMAC_START"} /\ length > 0 /\ message = <<>>
    THEN Failure("BAD_PARAM")
    ELSE Outcome(<<>>, <<Call(mode, length, message)>>)

\* What is copied from a response into a buffer of some size.
ShaResponse(response, room) ==
  CASE Len(response) <= 1                         -> [status |-> "SUCCESS", data |-> <<>>]
    [] Len(response) > 1 /\ Len(response) > room  -> Failure("SMALL_BUFFER")
    [] Len(response) > 1 /\ Len(response) <= room -> [status |-> "SUCCESS", data |-> response]

StreamCtx == [block |-> <<>>, total |-> 0]
Updates(mode, blocks) == [b \in DOMAIN blocks |-> Call(mode, 64, blocks[b])]
StreamUpdate(mode, ctx, data) ==
  LET taken == Take(ctx.block, data, 64)
  IN  Outcome([block |-> taken.block, total |-> ctx.total + 64 * Len(taken.blocks)],
              Updates(mode, taken.blocks))

atcab_hw_sha2_256_init == Outcome(StreamCtx, <<Call("START", 0, <<>>)>>)
atcab_hw_sha2_256_update(ctx, data) == StreamUpdate("UPDATE", ctx, data)

\* The ATSHA204A leaves the end of the message to the host.
atcab_hw_sha2_256_finish(device, ctx) ==
  Outcome(ctx, IF device = "ATSHA204A"
                 THEN Updates("UPDATE", Blocks(Padding(ctx.block, ctx.total), 64))
                 ELSE <<Call("END", Len(ctx.block), ctx.block)>>)

atcab_sha_hmac_init(key_slot) == Outcome(StreamCtx, <<Call("HMAC_START", key_slot, <<>>)>>)
atcab_sha_hmac_update(ctx, data) == StreamUpdate("HMAC_UPDATE", ctx, data)
atcab_sha_hmac_finish(device, ctx, target) ==
  CASE device = "ATECC608A" ->
         Outcome(ctx, <<Call(<<"608_HMAC_END", target>>, Len(ctx.block), ctx.block)>>)
    [] device # "ATECC608A" /\ target = "TEMPKEY" ->
         Outcome(ctx, <<Call(<<"HMAC_END", target>>, Len(ctx.block), ctx.block)>>)
    [] device # "ATECC608A" /\ target # "TEMPKEY" -> Failure("BAD_PARAM")
-----------------------------------------------------------------------------
(* AES.  A context of CBC is the last block of ciphertext, the initial vector *)
(* at first.                                                               *)

atcab_aes_cbc_encrypt_block(last, plaintext) == Encrypt(Mixed(plaintext, last))
atcab_aes_cbc_decrypt_block(last, ciphertext) == Mixed(Decrypt(ciphertext), last)

\* The last bytes of the counter block count up, and wrap around to zero.
Increment(cb, counter_size) ==
  [i \in 1..16 |-> IF i > 16 - counter_size /\ \A j \in (i + 1)..16 : cb[j] = 255
                     THEN (cb[i] + 1) % 256 ELSE cb[i]]

\* With a random vector only the part before the counter is drawn.
atcab_aes_ctr_init(counter_size, iv) ==
  IF counter_size > 16 THEN Failure("BAD_PARAM")
  ELSE Outcome([counter_size |-> counter_size, cb |-> iv], <<>>)
atcab_aes_ctr_init_rand(counter_size, iv, random) ==
  LET n == 16 - counter_size
  IN  IF counter_size > 16 THEN Failure("BAD_PARAM")
      ELSE Outcome([counter_size |-> counter_size,
                    cb |-> Slice(random, 0, n) \o Slice(iv, n, counter_size)], <<>>)
atcab_aes_ctr_block(ctx, input) ==
  [out |-> Mixed(input, Encrypt(ctx.cb)),
   ctx |-> [ctx EXCEPT !.cb = Increment(ctx.cb, ctx.counter_size)]]

\* CMAC: unlike a hash it keeps a last block that is full.
CmacInit == [block |-> <<>>, last |-> Zeros(16)]
atcab_aes_cmac_update(ctx, data) ==
  LET rem_size == 16 - Len(ctx.block)
      copy_size == IF Len(data) > rem_size THEN rem_size ELSE Len(data)
      first == ctx.block \o Slice(data, 0, copy_size)
      data_size == Len(data) - copy_size
      block_count == data_size \div 16 - (IF data_size > 0 /\ data_size % 16 = 0 THEN 1 ELSE 0)
      rest == Slice(data, copy_size + 16 * block_count, data_size - 16 * block_count)
  IN  IF Len(ctx.block) + Len(data) < 17 THEN [ctx EXCEPT !.block = first]
      ELSE [last |-> FoldLeft(atcab_aes_cbc_encrypt_block, ctx.last,
                       <<first>> \o Blocks(Slice(data, copy_size, 16 * block_count), 16)),
            block |-> rest]

left_shift_one(data) ==
  [i \in DOMAIN data |->
     ((2 * data[i]) % 256) + (IF i < Len(data) /\ data[i + 1] >= 128 THEN 1 ELSE 0)]
SubKey(key) ==
  LET shifted == left_shift_one(key)
  IN  IF key[1] >= 128 THEN [shifted EXCEPT ![16] = @ ^^ 135] ELSE shifted

atcab_aes_cmac_finish(ctx, cmac_size) ==
  LET key == SubKey(Encrypt(Zeros(16)))
      padded == ctx.block \o <<128>> \o Zeros(15 - Len(ctx.block))
      block == IF Len(ctx.block) = 16 THEN Mixed(ctx.block, key) ELSE Mixed(padded, SubKey(key))
  IN  IF cmac_size > 16 THEN Failure("BAD_PARAM")
      ELSE [status |-> "SUCCESS",
            cmac |-> Slice(atcab_aes_cbc_encrypt_block(ctx.last, block), 0, cmac_size)]
-----------------------------------------------------------------------------
(* AES-GCM.                                                                *)

Pad16(s) == s \o Zeros((16 - (Len(s) % 16)) % 16)
atcab_aes_ghash(h, data, y) ==
  LET Step(z, block) == Gfm(h, Mixed(z, block))
  IN  FoldLeft(Step, y, Blocks(Pad16(data), 16))

Length(n) == Word(n \div 536870912) \o BitCount(n)

atcab_aes_gcm_init(iv) ==
  LET h == Encrypt(Zeros(16))
      j0 == IF Len(iv) = 12 THEN iv \o <<0, 0, 0, 1>>
            ELSE atcab_aes_ghash(h, Zeros(12) \o BitCount(Len(iv)),
                                 atcab_aes_ghash(h, iv, Zeros(16)))
  IN  IF iv = <<>> THEN Failure("BAD_PARAM")
      ELSE [status |-> "SUCCESS", h |-> h, j0 |-> j0, cb |-> Increment(j0, 4),
            enc_cb |-> Zeros(16), y |-> Zeros(16), partial_aad |-> <<>>, aad_size |-> 0,
            data_size |-> 0, ciphertext_block |-> <<>>]

atcab_aes_gcm_init_rand(random, rand_size, free_field) ==
  IF rand_size \notin 12..32 THEN Failure("BAD_PARAM")
  ELSE atcab_aes_gcm_init(Slice(random, 0, rand_size) \o free_field)

atcab_aes_gcm_aad_update(ctx, aad) ==
  LET taken == Take(ctx.partial_aad, aad, 16)
  IN  [ctx EXCEPT !.y = atcab_aes_ghash(ctx.h, FlattenSeq(taken.blocks), @),
                  !.aad_size = @ + 16 * Len(taken.blocks),
                  !.partial_aad = taken.block]

\* The data, or their end, close the additional data.
AadClosed(ctx) ==
  IF ctx.partial_aad = <<>> THEN ctx
  ELSE [ctx EXCEPT !.y = atcab_aes_ghash(ctx.h, ctx.partial_aad, @),
                   !.aad_size = @ + Len(ctx.partial_aad), !.partial_aad = <<>>]

\* One byte.  The first of a block needs a new encrypted counter, the last one
\* has the block of ciphertext hashed.
GcmByte(s, byte, is_encrypt) ==
  LET ctx == s.ctx
      i == ctx.data_size % 16
      enc_cb == IF i = 0 THEN Encrypt(ctx.cb) ELSE ctx.enc_cb
      out == byte ^^ enc_cb[i + 1]
      block == (IF i = 0 THEN <<>> ELSE ctx.ciphertext_block)
                 \o <<IF is_encrypt THEN out ELSE byte>>
  IN  [out |-> Append(s.out, out),
       ctx |-> [ctx EXCEPT !.enc_cb = enc_cb,
                           !.cb = IF i = 0 THEN Increment(@, 4) ELSE @,
                           !.ciphertext_block = block, !.data_size = @ + 1,
                           !.y = IF i = 15 THEN atcab_aes_ghash(ctx.h, block, @) ELSE @]]

atcab_aes_gcm_update(ctx, input, is_encrypt) ==
  LET Step(s, byte) == GcmByte(s, byte, is_encrypt)
  IN  FoldLeft(Step, [out |-> <<>>, ctx |-> AadClosed(ctx)], input)

\* A block that was not filled has not been hashed yet.
GcmClosed(ctx) ==
  LET closed == AadClosed(ctx)
  IN  IF ctx.data_size % 16 = 0 THEN closed
      ELSE [closed EXCEPT !.y = atcab_aes_ghash(ctx.h, ctx.ciphertext_block, @)]

atcab_aes_gcm_calc_auth_tag(ctx, tag_size) ==
  LET y == atcab_aes_ghash(ctx.h, Length(ctx.aad_size) \o Length(ctx.data_size), ctx.y)
  IN  IF tag_size \notin 12..16 THEN Failure("BAD_PARAM")
      ELSE [status |-> "SUCCESS", tag |-> Slice(Mixed(Encrypt(ctx.j0), y), 0, tag_size)]

atcab_aes_gcm_encrypt_finish(ctx, tag_size) ==
  atcab_aes_gcm_calc_auth_tag(GcmClosed(ctx), tag_size)
atcab_aes_gcm_decrypt_finish(ctx, tag) ==
  LET calc == atcab_aes_gcm_calc_auth_tag(GcmClosed(ctx), Len(tag))
  IN  IF calc.status = "SUCCESS" THEN [status |-> "SUCCESS", is_verified |-> calc.tag = tag]
      ELSE [status |-> calc.status, is_verified |-> FALSE]
=============================================================================
