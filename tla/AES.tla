-------------------------------- MODULE AES --------------------------------
(* The program compile.sh pads: AES-128 in three modes, and two contexts of  *)
(* one key that send each other a text in calls of their own lengths.        *)
EXTENDS Naturals, SequencesExt, Bitwise

CONSTANTS
  Key,        \* the 16 bytes of the key
  Iv0,        \* per mode, the initialisation vector given to both contexts
  Plain,      \* the text
  Expected,   \* per mode, what the tests say it becomes
  Lengths,    \* per mode, the lengths of calls: multiples of 16 but for CTR
  MaxSetIv    \* bound: how often AES_ctx_set_iv is called

VARIABLES
  mode,
  Iv,         \* per side, ctx->Iv
  sent,       \* what the sender has written: the calls work in place
  received,
  fresh,      \* history: per side, blocks ciphered since Iv was set
  places,     \* history: per side and byte, its block since then, and where
  setIvs

vars == <<mode, Iv, sent, received, fresh, places, setIvs>>

Sides == {"sender", "receiver"}
Byte  == 0..255

(***************************************************************************)
(* Bytes.                                                                  *)
(***************************************************************************)
sboxTable ==
  <<\h63, \h7c, \h77, \h7b, \hf2, \h6b, \h6f, \hc5, \h30, \h01, \h67, \h2b, \hfe, \hd7, \hab, \h76,
    \hca, \h82, \hc9, \h7d, \hfa, \h59, \h47, \hf0, \had, \hd4, \ha2, \haf, \h9c, \ha4, \h72, \hc0,
    \hb7, \hfd, \h93, \h26, \h36, \h3f, \hf7, \hcc, \h34, \ha5, \he5, \hf1, \h71, \hd8, \h31, \h15,
    \h04, \hc7, \h23, \hc3, \h18, \h96, \h05, \h9a, \h07, \h12, \h80, \he2, \heb, \h27, \hb2, \h75,
    \h09, \h83, \h2c, \h1a, \h1b, \h6e, \h5a, \ha0, \h52, \h3b, \hd6, \hb3, \h29, \he3, \h2f, \h84,
    \h53, \hd1, \h00, \hed, \h20, \hfc, \hb1, \h5b, \h6a, \hcb, \hbe, \h39, \h4a, \h4c, \h58, \hcf,
    \hd0, \hef, \haa, \hfb, \h43, \h4d, \h33, \h85, \h45, \hf9, \h02, \h7f, \h50, \h3c, \h9f, \ha8,
    \h51, \ha3, \h40, \h8f, \h92, \h9d, \h38, \hf5, \hbc, \hb6, \hda, \h21, \h10, \hff, \hf3, \hd2,
    \hcd, \h0c, \h13, \hec, \h5f, \h97, \h44, \h17, \hc4, \ha7, \h7e, \h3d, \h64, \h5d, \h19, \h73,
    \h60, \h81, \h4f, \hdc, \h22, \h2a, \h90, \h88, \h46, \hee, \hb8, \h14, \hde, \h5e, \h0b, \hdb,
    \he0, \h32, \h3a, \h0a, \h49, \h06, \h24, \h5c, \hc2, \hd3, \hac, \h62, \h91, \h95, \he4, \h79,
    \he7, \hc8, \h37, \h6d, \h8d, \hd5, \h4e, \ha9, \h6c, \h56, \hf4, \hea, \h65, \h7a, \hae, \h08,
    \hba, \h78, \h25, \h2e, \h1c, \ha6, \hb4, \hc6, \he8, \hdd, \h74, \h1f, \h4b, \hbd, \h8b, \h8a,
    \h70, \h3e, \hb5, \h66, \h48, \h03, \hf6, \h0e, \h61, \h35, \h57, \hb9, \h86, \hc1, \h1d, \h9e,
    \he1, \hf8, \h98, \h11, \h69, \hd9, \h8e, \h94, \h9b, \h1e, \h87, \he9, \hce, \h55, \h28, \hdf,
    \h8c, \ha1, \h89, \h0d, \hbf, \he6, \h42, \h68, \h41, \h99, \h2d, \h0f, \hb0, \h54, \hbb, \h16>>

rsboxTable ==
  <<\h52, \h09, \h6a, \hd5, \h30, \h36, \ha5, \h38, \hbf, \h40, \ha3, \h9e, \h81, \hf3, \hd7, \hfb,
    \h7c, \he3, \h39, \h82, \h9b, \h2f, \hff, \h87, \h34, \h8e, \h43, \h44, \hc4, \hde, \he9, \hcb,
    \h54, \h7b, \h94, \h32, \ha6, \hc2, \h23, \h3d, \hee, \h4c, \h95, \h0b, \h42, \hfa, \hc3, \h4e,
    \h08, \h2e, \ha1, \h66, \h28, \hd9, \h24, \hb2, \h76, \h5b, \ha2, \h49, \h6d, \h8b, \hd1, \h25,
    \h72, \hf8, \hf6, \h64, \h86, \h68, \h98, \h16, \hd4, \ha4, \h5c, \hcc, \h5d, \h65, \hb6, \h92,
    \h6c, \h70, \h48, \h50, \hfd, \hed, \hb9, \hda, \h5e, \h15, \h46, \h57, \ha7, \h8d, \h9d, \h84,
    \h90, \hd8, \hab, \h00, \h8c, \hbc, \hd3, \h0a, \hf7, \he4, \h58, \h05, \hb8, \hb3, \h45, \h06,
    \hd0, \h2c, \h1e, \h8f, \hca, \h3f, \h0f, \h02, \hc1, \haf, \hbd, \h03, \h01, \h13, \h8a, \h6b,
    \h3a, \h91, \h11, \h41, \h4f, \h67, \hdc, \hea, \h97, \hf2, \hcf, \hce, \hf0, \hb4, \he6, \h73,
    \h96, \hac, \h74, \h22, \he7, \had, \h35, \h85, \he2, \hf9, \h37, \he8, \h1c, \h75, \hdf, \h6e,
    \h47, \hf1, \h1a, \h71, \h1d, \h29, \hc5, \h89, \h6f, \hb7, \h62, \h0e, \haa, \h18, \hbe, \h1b,
    \hfc, \h56, \h3e, \h4b, \hc6, \hd2, \h79, \h20, \h9a, \hdb, \hc0, \hfe, \h78, \hcd, \h5a, \hf4,
    \h1f, \hdd, \ha8, \h33, \h88, \h07, \hc7, \h31, \hb1, \h12, \h10, \h59, \h27, \h80, \hec, \h5f,
    \h60, \h51, \h7f, \ha9, \h19, \hb5, \h4a, \h0d, \h2d, \he5, \h7a, \h9f, \h93, \hc9, \h9c, \hef,
    \ha0, \he0, \h3b, \h4d, \hae, \h2a, \hf5, \hb0, \hc8, \heb, \hbb, \h3c, \h83, \h53, \h99, \h61,
    \h17, \h2b, \h04, \h7e, \hba, \h77, \hd6, \h26, \he1, \h69, \h14, \h63, \h55, \h21, \h0c, \h7d>>

sbox  == [x \in Byte |-> sboxTable[x + 1]]
rsbox == [x \in Byte |-> rsboxTable[x + 1]]
Rcon  == <<\h01, \h02, \h04, \h08, \h10, \h20, \h40, \h80, \h1b, \h36>>

XOR == [x \in Byte |-> [y \in Byte |-> x ^^ y]]

xtime == [x \in Byte |-> XOR[(2 * x) % 256][(x \div 128) * \h1b]]

\* The sum of x times the powers of two that y has, in the field.
Multiply ==
  [y \in {\h09, \h0b, \h0d, \h0e} |-> [x \in Byte |->
     LET power == <<x, xtime[x], xtime[xtime[x]], xtime[xtime[xtime[x]]]>>
     IN  FoldLeft(LAMBDA sum, k : IF (y \div (2^(k - 1))) % 2 = 1 THEN XOR[sum][power[k]] ELSE sum,
                  0, <<1, 2, 3, 4>>)]]

(***************************************************************************)
(* Blocks: state[i][j] is byte 4i + j + 1.                                 *)
(***************************************************************************)
Nk == 4
Nr == 10

\* F(x); as x is bound by a set, TLC computes it before it goes on.
With(x, F(_)) == CHOOSE y \in {F(z) : z \in {x}} : TRUE

\* A loop of the code, over what seq lists.
Loop(Step(_, _), start, seq) ==
  FoldLeft(LAMBDA s, i : With(s, LAMBDA now : Step(now, i)), start, seq)

\* SubSeq has TLC compute the bytes once.
Bytes(n, B(_)) == SubSeq([k \in 1..n |-> B(k)], 1, n)

XorBytes(a, b) == Bytes(Len(a), LAMBDA k : XOR[a[k]][b[k]])

KeyExpansion(key) ==
  LET Next4(words, i) ==
        LET w    == words[i]
            temp == IF i % Nk # 0 THEN w
                    ELSE <<XOR[sbox[w[2]]][Rcon[i \div Nk]], sbox[w[3]], sbox[w[4]], sbox[w[1]]>>
        IN  Append(words, XorBytes(words[i - Nk + 1], temp))
  IN  FlattenSeq(Loop(Next4, [i \in 1..Nk |-> SubSeq(key, 4 * i - 3, 4 * i)],
                      [i \in 1..(4 * Nr) |-> i + Nk - 1]))

\* Both contexts' round keys, which nothing changes after their calls of
\* AES_init_ctx_iv.
RoundKey == KeyExpansion(Key)

AddRoundKey(round, s) == XorBytes(s, SubSeq(RoundKey, 16 * round + 1, 16 * round + 16))

SubBytes(s)    == Bytes(16, LAMBDA k : sbox[s[k]])
InvSubBytes(s) == Bytes(16, LAMBDA k : rsbox[s[k]])

\* Row j is rotated by j columns, to the left or to the right.
Rotated(s, columns) == Bytes(16, LAMBDA k : s[((k - 1 + columns * 4 * ((k - 1) % 4)) % 16) + 1])
ShiftRows(s)    == Rotated(s, 1)
InvShiftRows(s) == Rotated(s, 3)

\* The byte d rows below byte k in its column.
Below(s, k, d) == s[4 * ((k - 1) \div 4) + ((k - 1 + d) % 4) + 1]

MixColumns(s) ==
  Bytes(16, LAMBDA k :
    LET Tmp == XOR[XOR[s[k]][Below(s, k, 1)]][XOR[Below(s, k, 2)][Below(s, k, 3)]]
        Tm  == xtime[XOR[s[k]][Below(s, k, 1)]]
    IN  XOR[s[k]][XOR[Tm][Tmp]])

InvMixColumns(s) ==
  Bytes(16, LAMBDA k :
    XOR[XOR[Multiply[\h0e][s[k]]][Multiply[\h0b][Below(s, k, 1)]]]
       [XOR[Multiply[\h0d][Below(s, k, 2)]][Multiply[\h09][Below(s, k, 3)]]])

Cipher(s) ==
  LET Round(t, round) == AddRoundKey(round, MixColumns(ShiftRows(SubBytes(t))))
  IN  AddRoundKey(Nr, ShiftRows(SubBytes(Loop(Round, AddRoundKey(0, s), [r \in 1..(Nr - 1) |-> r]))))

InvCipher(s) ==
  LET Round(t, round) == InvMixColumns(AddRoundKey(round, InvSubBytes(InvShiftRows(t))))
  IN  AddRoundKey(0, InvSubBytes(InvShiftRows(
        Loop(Round, AddRoundKey(Nr, s), [r \in 1..(Nr - 1) |-> Nr - r]))))

(***************************************************************************)
(* The modes: the vector that a call leaves in the context, and the text   *)
(* it leaves in the buffer.                                                *)
(***************************************************************************)
Chunks(text) ==
  [b \in 1..((Len(text) + 15) \div 16) |->
     SubSeq(text, 16 * b - 15, IF 16 * b < Len(text) THEN 16 * b ELSE Len(text))]

\* A call's loop over its blocks: Step's answer is the next block's vector
\* and the block.
Blocks(Step(_, _), iv, text) ==
  Loop(LAMBDA r, block : LET next == Step(r.iv, block)
                         IN  [iv |-> next.iv, text |-> r.text \o next.text],
       [iv |-> iv, text |-> <<>>], Chunks(text))

AES_ECB_encrypt(iv, text) == Blocks(LAMBDA v, b : [iv |-> v, text |-> Cipher(b)], iv, text)
AES_ECB_decrypt(iv, text) == Blocks(LAMBDA v, b : [iv |-> v, text |-> InvCipher(b)], iv, text)

\* Mutant: the vector for the next call is not stored.
StoredIvOld(iv, last) == iv

\* What CBC encryption leaves in the context: its last block.
StoredIv(iv, last) == last

AES_CBC_encrypt_buffer(iv, text) ==
  LET done == Blocks(LAMBDA v, b : LET c == Cipher(XorBytes(b, v)) IN [iv |-> c, text |-> c], iv, text)
  IN  [done EXCEPT !.iv = StoredIv(iv, @)]

AES_CBC_decrypt_buffer(iv, text) ==
  Blocks(LAMBDA v, b : [iv |-> b, text |-> XorBytes(InvCipher(b), v)], iv, text)

\* Mutant: the last byte's overflow is not carried.
IncrementIvLast(iv) == [iv EXCEPT ![16] = (@ + 1) % 256]

\* From the last byte on, bytes of 255 become 0, and the first other one is
\* incremented.
IncrementIv(iv) ==
  LET others == {k \in 1..16 : iv[k] # 255}
  IN  Bytes(16, LAMBDA k : IF \E o \in others : o > k THEN iv[k]
                           ELSE IF k \in others THEN iv[k] + 1 ELSE 0)

\* Every call starts with a new block, whatever was left of the last one.
AES_CTR_xcrypt_buffer(iv, text) ==
  Blocks(LAMBDA v, b : [iv |-> IncrementIv(v), text |-> XorBytes(b, Cipher(v))], iv, text)

Encrypt(iv, text) ==
  CASE mode = "ECB" -> AES_ECB_encrypt(iv, text)
    [] mode = "CBC" -> AES_CBC_encrypt_buffer(iv, text)
    [] mode = "CTR" -> AES_CTR_xcrypt_buffer(iv, text)

Decrypt(iv, text) ==
  CASE mode = "ECB" -> AES_ECB_decrypt(iv, text)
    [] mode = "CBC" -> AES_CBC_decrypt_buffer(iv, text)
    [] mode = "CTR" -> AES_CTR_xcrypt_buffer(iv, text)

(***************************************************************************)
(* The two contexts.                                                       *)
(***************************************************************************)
PlacesFrom(n, length) == [k \in 1..length |-> <<n + (k - 1) \div 16, (k - 1) % 16>>]

Counted(side, length) ==
  /\ fresh'  = [fresh EXCEPT ![side] = @ + (length + 15) \div 16]
  /\ places' = [places EXCEPT ![side] = @ \o PlacesFrom(fresh[side], length)]

Send(length) ==
  /\ Len(sent) + length <= Len(Plain)
  /\ LET call == Encrypt(Iv["sender"], SubSeq(Plain, Len(sent) + 1, Len(sent) + length))
     IN  /\ Iv'   = [Iv EXCEPT !["sender"] = call.iv]
         /\ sent' = sent \o call.text
  /\ Counted("sender", length)
  /\ UNCHANGED <<mode, received, setIvs>>

Receive(length) ==
  /\ Len(received) + length <= Len(sent)
  /\ LET call == Decrypt(Iv["receiver"], SubSeq(sent, Len(received) + 1, Len(received) + length))
     IN  /\ Iv'       = [Iv EXCEPT !["receiver"] = call.iv]
         /\ received' = received \o call.text
  /\ Counted("receiver", length)
  /\ UNCHANGED <<mode, sent, setIvs>>

AES_ctx_set_iv(side) ==
  /\ setIvs < MaxSetIv
  /\ setIvs' = setIvs + 1
  /\ Iv'     = [Iv EXCEPT ![side] = Iv0[mode]]
  /\ fresh'  = [fresh EXCEPT ![side] = 0]
  /\ UNCHANGED <<mode, sent, received, places>>

\* AES_init_ctx_iv of both.
Init ==
  /\ mode \in DOMAIN Iv0
  /\ Iv = [s \in Sides |-> Iv0[mode]]
  /\ sent = <<>> /\ received = <<>> /\ setIvs = 0
  /\ fresh = [s \in Sides |-> 0] /\ places = [s \in Sides |-> <<>>]

Next ==
  \/ \E length \in Lengths[mode] : Send(length) \/ Receive(length)
  \/ \E side \in Sides : AES_ctx_set_iv(side)

Spec == Init /\ [][Next]_vars

-----------------------------------------------------------------------------
(* Properties.                                                             *)

\* What a mode's result depends on of a byte's place: nothing, whether its
\* block is the first since the vector was set, or all of it.
Relevant(place) ==
  CASE mode = "ECB" -> {}
    [] mode = "CBC" -> {place[1] = 0}
    [] mode = "CTR" -> {place}

SamePlaces(a, b) == \A k \in DOMAIN a : Relevant(a[k]) = Relevant(b[k])

\* What is received is the text exactly when both sides' bytes have the same
\* places, however each side cuts the text into calls and whenever it sets
\* its vector: two calls of CBC go on as one would, two of CTR only if the
\* first ends with a block (aes.c:602-670).
Recovered ==
  received = SubSeq(Plain, 1, Len(received)) <=> SamePlaces(places["receiver"], places["sender"])

\* What is sent is what the tests expect exactly when it is cut so that its
\* bytes have the places that one call gives them (aes.c:776-977): the cipher
\* is AES, and the counter's carries are right.
AsInTests ==
  sent = SubSeq(Expected[mode], 1, Len(sent)) <=>
    SamePlaces(places["sender"], PlacesFrom(0, Len(sent)))
=============================================================================
