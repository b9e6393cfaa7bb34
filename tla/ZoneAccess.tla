----------------------------- MODULE ZoneAccess -----------------------------
(***************************************************************************)
(* How CryptoAuthLib's basic API cuts an access to a zone of the secure    *)
(* element into commands (atca_basic.c, atca_basic_read.c,                 *)
(* atca_basic_write.c and atca_basic_lock.c), as functions.                *)
(*                                                                         *)
(* A command reads or writes one word or one block.  A piece is what one    *)
(* command does: where in the zone it starts, its size, and the part of the *)
(* caller's buffer that goes with it.                                      *)
(***************************************************************************)
EXTENDS Naturals, Sequences

Word == 4     \* ATCA_WORD_SIZE
Block == 32   \* ATCA_BLOCK_SIZE
WordsPerBlock == Block \div Word
Pad == 4      \* ATCA_PUB_KEY_PAD

CONFIG == 0
OTP == 1
DATA == 2
Zones == {CONFIG, OTP, DATA}

BadParam == "ATCA_BAD_PARAM"
Success == "ATCA_SUCCESS"

\* The size of a zone, and of a slot of the data zone, of an ECC device.  0
\* stands for ATCA_BAD_PARAM.
atcab_get_zone_size(zone, slot) ==
  CASE zone = CONFIG                  -> 128
    [] zone = OTP                     -> 64
    [] zone = DATA /\ slot < 8        -> 36
    [] zone = DATA /\ slot = 8        -> 416
    [] zone = DATA /\ slot \in 9..15  -> 72
    [] OTHER                          -> 0

\* Param2 of a command; slots have 4 bits, so that the fields do not overlap.
atcab_get_addr(zone, slot, block, offset) ==
  IF zone = DATA
  THEN (slot * 8 + (offset % 8) + block * 256) % 65536
  ELSE (block * 8 + (offset % 8)) % 65536

\* A read or write of size bytes at a word of a block.
Piece(block, word, size, skip, copied) ==
  [block |-> block, word |-> word, size |-> size,
   skip |-> skip,       \* bytes of the piece before the part that is wanted
   copied |-> copied]   \* bytes of the caller's buffer

Start(piece) == piece.block * Block + piece.word * Word

\* The checks that reading and writing have in common.  size_t has 16 bits.
Refused(zone, slot, offset, length) ==
  \/ zone \notin Zones
  \/ zone = DATA /\ slot > 15
  \/ length # 0 /\ (offset + length) % 65536 > atcab_get_zone_size(zone, slot)

Smaller(a, b) == IF a < b THEN a ELSE b

\* Blocks while a whole block of the zone is left, then words; the first
\* switch to words sets the word, in the middle of a block it goes on from.
ReadPieces(zonesize, offset, length) ==
  LET pieces[got \in 0..length, block \in 0..255, word \in 0..255,
             size \in {Word, Block}] ==
        IF got >= length THEN <<>>
        ELSE IF size = Block /\ zonesize - block * Block < Block
        THEN pieces[got, block, ((got + offset) \div Word) % WordsPerBlock, Word]
        ELSE LET at == block * Block + word * Word
                 skip == IF at < offset THEN offset - at ELSE 0
                 copied == Smaller(length - got, size - skip)
             IN  <<Piece(block, word, size, skip, copied)>>
                   \o IF size = Block
                      THEN pieces[got + copied, block + 1, word, size]
                      ELSE pieces[got + copied, block, word + 1, size]
  IN  pieces[0, offset \div Block, 0, Block]

atcab_read_bytes_zone(zone, slot, offset, length) ==
  IF Refused(zone, slot, offset, length)
  THEN [status |-> BadParam, pieces |-> <<>>]
  ELSE [status |-> Success,
        pieces |-> ReadPieces(atcab_get_zone_size(zone, slot), offset, length)]

\* Writing goes by words until a block starts, and in the block of the lock
\* bytes; the word that holds those is passed over.
LockBytes(zone, block, word) == zone = CONFIG /\ block = 2 /\ word = 5
WritePieces(zone, offset, length) ==
  LET pieces[done \in 0..length] ==
        LET block == (offset + done) \div Block
            word == ((offset + done) % Block) \div Word
        IN  IF done >= length THEN <<>>
            ELSE IF /\ word = 0 /\ length - done >= Block
                    /\ ~(zone = CONFIG /\ block = 2)
            THEN <<Piece(block, 0, Block, 0, Block)>> \o pieces[done + Block]
            ELSE (IF LockBytes(zone, block, word) THEN <<>>
                  ELSE <<Piece(block, word, Word, 0, Word)>>)
                   \o pieces[done + Word]
  IN  pieces[0]

atcab_write_bytes_zone(zone, slot, offset, length) ==
  IF \/ Refused(zone, slot, offset, length)
     \/ length # 0 /\ (offset % Word # 0 \/ length % Word # 0)
  THEN [status |-> BadParam, pieces |-> <<>>]
  ELSE [status |-> Success, pieces |-> WritePieces(zone, offset, length)]

\* A public key in its slot: a pad before either coordinate.  The third block
\* is filled up with zeros, past the end of the slot.
atcab_write_pubkey(key) ==
  [i \in 1..(3 * Block) |->
     IF i \in (Pad + 1)..(Pad + 32) THEN key[i - Pad]
     ELSE IF i \in (2 * Pad + 33)..(2 * Pad + 64) THEN key[i - 2 * Pad]
     ELSE 0]

\* The parts of the blocks read that make the key: the second block has the end
\* of the first coordinate and the start of the second one.
atcab_read_pubkey(blocks) ==
  SubSeq(blocks[1], Pad + 1, Block) \o SubSeq(blocks[2], 1, Pad)
    \o SubSeq(blocks[2], 2 * Pad + 1, Block) \o SubSeq(blocks[3], 1, 2 * Pad)

\* From the first block of the configuration zone.
atcab_read_serial_number(block) == SubSeq(block, 1, 4) \o SubSeq(block, 9, 13)

\* From the word with the lock bits of slots 0 to 15, of which 0 means locked.
atcab_is_slot_locked(slot, word) ==
  ((word[1] + 256 * word[2]) \div 2 ^ slot) % 2 = 0

\* Param1 of the lock command for a slot.
atcab_lock_data_slot(slot) == ((slot * 4) % 256) + 2

=============================================================================
