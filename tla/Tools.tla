------------------------------- MODULE Tools -------------------------------
(***************************************************************************)
(* The programs that call the library, as users of its random generator:   *)
(* PQCgenKAT_sign, which writes a file of requests, reads it back and      *)
(* answers it; eht_keygen, which draws the seeds of those requests again   *)
(* to make one of their keys; eht_siggen, once per batch of                *)
(* 01_signature_generation.sh.  Each program has a generator of its own;   *)
(* they run one at a time here, as nothing but files connects them.        *)
(*                                                                         *)
(* What the library does with the generator is in Ehtv3.  Here a key is    *)
(* the seed it is drawn from, a function of the generator that key_gen     *)
(* finds, and a signature leaves the generator in a state that depends on  *)
(* the key and the number of draws.                                        *)
(***************************************************************************)
EXTENDS Rng

CONSTANTS Count,         \* requests: 100
          MsgUnit,       \* 33, the length of the first message
          Entropy,       \* the entropy input of the first two programs
          KeyOf(_),      \* the key that key_gen makes of a generator
          Spent(_, _),   \* the generator after that many draws of sig_gen
          Words(_, _),   \* the block of one unsigned int and three times another
          Args,          \* arguments of eht_keygen
          NBatches, NumSigs,   \* batches, and the signatures in each
          MaxDraws,      \* bound on the draws of a signature
          NoKey

State == [Key : Key, V : Block]

SeedLen == 3 * BlockLen
mlen(n) == MsgUnit * (n + 1)

ASSUME ToolsAssumption ==
  /\ Count \in Nat \ {0} /\ MsgUnit \in Nat \ {0}
  /\ NBatches \in Nat /\ NumSigs \in Nat /\ MaxDraws \in Nat /\ Args \subseteq Nat
  /\ Entropy \in Seed /\ NoKey \notin Seed
  /\ \A ctx \in State : KeyOf(ctx) \in Seed
  /\ \A k \in Seed, d \in 0 .. MaxDraws : Spent(k, d) \in State
  /\ \A t, u \in 0 .. NBatches + NumSigs : Words(t, u) \in Block
  /\ \A t, u, v, w \in 0 .. NBatches + NumSigs :
       Words(t, u) = Words(v, w) => t = v /\ u = w

VARIABLES pc,        \* "idle", or where the running program is
          ctx,       \* its DRBG_ctx
          i,         \* its loop variable
          seed,      \* its array of that name
          request,   \* the request file: [seed, mlen, msg], the n-th with count n-1
          response,  \* the response file: [count, key, signed]
          arg, sk,   \* of eht_keygen: its argument, and the key in private.sk
          batch,     \* the MSGSEED of the last eht_siggen
          asked, replayed,   \* history: generators at each pass of the two loops
          starts     \* history: [batch, i, from], the generator of each message

kat  == <<request, response, asked>>
key  == <<arg, sk, replayed>>
sign == <<batch, starts>>
toolVars == <<pc, ctx, i, seed, kat, key, sign>>

ToolsInit == /\ pc = "idle" /\ i = 0
             /\ ctx = Unseeded
             /\ seed = <<0, 0, 0>>
             /\ request = << >> /\ response = << >> /\ asked = << >>
             /\ arg = 0 /\ sk = NoKey /\ replayed = << >>
             /\ batch = 0 /\ starts = << >>

-----------------------------------------------------------------------------
(* PQCgenKAT_sign *)

\* Both loops draw a seed and then a message.
AfterPass(c, n) == After(After(c, SeedLen), mlen(n))

BeginKat == /\ pc = "idle" /\ request = << >>
            /\ pc' = "request" /\ i' = 0
            /\ ctx' = randombytes_init(Entropy)
            /\ UNCHANGED <<seed, kat, key, sign>>

Request == /\ pc = "request" /\ i < Count
           /\ seed' = Drawn(ctx, SeedLen)
           /\ request' = Append(request,
                [seed |-> seed', mlen |-> mlen(i), msg |-> Drawn(After(ctx, SeedLen), mlen(i))])
           /\ asked' = Append(asked, ctx)
           /\ ctx' = AfterPass(ctx, i)
           /\ i' = i + 1
           /\ UNCHANGED <<pc, response, key, sign>>

\* The request file is closed and opened again, to be read from the start.
Reopen == /\ pc = "request" /\ i = Count
          /\ pc' = "count" /\ i' = 0
          /\ UNCHANGED <<ctx, seed, kat, key, sign>>

\* ReadHex: all but the last n blocks would be shifted out, and fewer would
\* be shifted in behind zeros.
ReadHex(text, n) ==
  [b \in 1 .. n |-> IF b + Len(text) > n THEN text[b + Len(text) - n] ELSE 0]

\* FindMarker finds another count.
Answer == /\ pc = "count" /\ i < Len(request)
          /\ pc' = "keypair"
          /\ seed' = ReadHex(request[i + 1].seed, 3)
          /\ ctx' = randombytes_init(seed')
          /\ response' = Append(response, [count |-> i, key |-> NoKey, signed |-> FALSE])
          /\ UNCHANGED <<i, request, asked, key, sign>>

KatKeypair == /\ pc = "keypair"
              /\ pc' = "sign"
              /\ response' = [response EXCEPT ![i + 1].key = KeyOf(ctx)]
              /\ ctx' = randombytes_init(KeyOf(ctx))
              /\ UNCHANGED <<i, seed, request, asked, key, sign>>

KatSign == /\ pc = "sign"
           /\ pc' = "open"
           /\ \E d \in 0 .. MaxDraws : ctx' = Spent(response[i + 1].key, d)
           /\ response' = [response EXCEPT ![i + 1].signed = TRUE]
           /\ UNCHANGED <<i, seed, request, asked, key, sign>>

KatOpen == /\ pc = "open"
           /\ pc' = "count" /\ i' = i + 1
           /\ UNCHANGED <<ctx, seed, kat, key, sign>>

\* The end of the request file, or an error: the response file stays as it is.
KatEnds == /\ \/ pc = "count" /\ i = Len(request)
              \/ pc \in {"keypair", "sign", "open"}
           /\ pc' = "idle"
           /\ UNCHANGED <<ctx, i, seed, kat, key, sign>>

Kat == \/ BeginKat \/ Request \/ Reopen
       \/ Answer \/ KatKeypair \/ KatSign \/ KatOpen \/ KatEnds

-----------------------------------------------------------------------------
(* eht_keygen *)

BeginKeygen(given) == /\ pc = "idle" /\ replayed = << >>
                      /\ pc' = "replay" /\ i' = 0
                      /\ arg' = given
                      /\ ctx' = randombytes_init(Entropy)
                      /\ UNCHANGED <<seed, kat, sk, replayed, sign>>

key_idx == IF arg >= Count THEN 0 ELSE arg

\* MUTANT of Replay: the loop ends before the seed of its index is drawn.
ReplayBefore == /\ pc = "replay"
                /\ seed' = IF i = key_idx THEN seed ELSE Drawn(ctx, SeedLen)
                /\ replayed' = Append(replayed, ctx)
                /\ ctx' = AfterPass(ctx, i)
                /\ IF i = key_idx THEN pc' = "reseed" /\ UNCHANGED i
                                  ELSE i' = i + 1 /\ UNCHANGED pc
                /\ UNCHANGED <<kat, arg, sk, sign>>

Replay == /\ pc = "replay"
          /\ seed' = Drawn(ctx, SeedLen)
          /\ replayed' = Append(replayed, ctx)
          /\ ctx' = AfterPass(ctx, i)
          /\ IF i = key_idx THEN pc' = "reseed" /\ UNCHANGED i
                            ELSE i' = i + 1 /\ UNCHANGED pc
          /\ UNCHANGED <<kat, arg, sk, sign>>

\* key_gen returns a key or fails, which ends the program without one.
Keygen == /\ pc = "reseed"
          /\ pc' = "idle"
          /\ ctx' = randombytes_init(seed)
          /\ sk' \in {KeyOf(ctx'), NoKey}
          /\ UNCHANGED <<i, seed, kat, arg, replayed, sign>>

-----------------------------------------------------------------------------
(* eht_siggen *)

BeginSiggen == /\ pc = "idle" /\ sk # NoKey /\ batch < NBatches
               /\ pc' = "message" /\ i' = 0
               /\ batch' = batch + 1
               /\ ctx' = Unseeded
               /\ UNCHANGED <<seed, kat, key, starts>>

\* entropy_input: MSGSEED, and i in all the words after it.
MessageEntropy(b, n) == <<Words(b, n), Words(n, n), Words(n, n)>>

\* MUTANT of Message: the generator is seeded before the first message only.
MessageOnStream ==
  /\ pc = "message" /\ i < NumSigs
  /\ pc' = "signature"
  /\ LET from == IF i = 0 THEN randombytes_init(MessageEntropy(batch, i)) ELSE ctx
     IN  /\ starts' = Append(starts, [batch |-> batch, i |-> i, from |-> from])
         /\ ctx' = After(from, MsgUnit)
  /\ UNCHANGED <<i, seed, kat, key, batch>>

Message ==
  /\ pc = "message" /\ i < NumSigs
  /\ pc' = "signature"
  /\ LET from == randombytes_init(MessageEntropy(batch, i))
     IN  /\ starts' = Append(starts, [batch |-> batch, i |-> i, from |-> from])
         /\ ctx' = After(from, MsgUnit)
  /\ UNCHANGED <<i, seed, kat, key, batch>>

Signature == /\ pc = "signature"
             /\ pc' = "message" /\ i' = i + 1
             /\ \E d \in 0 .. MaxDraws : ctx' = Spent(sk, d)
             /\ UNCHANGED <<seed, kat, key, sign>>

\* All signatures are made, or crypto_sign has failed.
SiggenEnds == /\ \/ pc = "message" /\ i = NumSigs
                 \/ pc = "signature"
              /\ pc' = "idle"
              /\ UNCHANGED <<ctx, i, seed, kat, key, sign>>

AllOver == pc = "idle" /\ UNCHANGED toolVars

ToolsNext == \/ Kat
             \/ \E given \in Args : BeginKeygen(given)
             \/ Replay \/ Keygen
             \/ BeginSiggen \/ Message \/ Signature \/ SiggenEnds
             \/ AllOver

ToolsSpec == ToolsInit /\ [][ToolsNext]_toolVars

-----------------------------------------------------------------------------
\* "We call the PRNG in the same way to recover the secret seed at index
\* KEY_IDX" (keygen.c): eht_keygen, which reads none of the files of
\* PQCgenKAT_sign, makes the key of the answer with the count it was asked
\* for, or with count 0 if it was asked for one that there is not.
KatKeyRegenerated ==
  sk # NoKey => \A n \in DOMAIN response :
    LET r == response[n]
    IN  r.count = key_idx /\ r.key # NoKey => r.key = sk

\* "reseed the PRNG to a unique starting value" (siggen.c): no two messages
\* of all the batches are drawn from the same state of the generator, though
\* every signature leaves it in one that depends on the key alone.
StartsDistinct ==
  \A m, n \in DOMAIN starts : m # n => starts[m].from # starts[n].from
=============================================================================
