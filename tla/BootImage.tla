------------------------------ MODULE BootImage ------------------------------
(***************************************************************************)
(* The image between the build tool and the bootloader: the tool pads it   *)
(* to whole blocks and writes its checksum (tools/build_tool), the network *)
(* or the sender may change or cut it, and BootFileHeader::validate()      *)
(* judges what is in receiveBuffer, where the DRAM behind the image holds  *)
(* what it held before.  Lengths are counted in words.                     *)
(***************************************************************************)
EXTENDS Integers, Sequences, SequencesExt, FiniteSetsExt

CONSTANTS
    WordSpace,      \* words are modulo this: 2^32
    blockSize,      \* 512 bytes
    magicSeed,      \* "eGON.BT0", two words
    checkSumSeed,   \* 0x5F0A6C39
    Contents,       \* the payloads the tool may be given: sequences of words
    Leftover        \* the words the DRAM may hold before the download

Word == 0..(WordSpace - 1)

(* Up to a whole block.                                                    *)
RoundedUp(n) == ((n + blockSize - 1) \div blockSize) * blockSize

(* The length of an image fits its field of the header.                    *)
ASSUME ImageAssumption ==
    /\ WordSpace \in Nat \ {0, 1}
    /\ blockSize \in Nat /\ blockSize > 5
    /\ magicSeed \in Seq(Word) /\ Len(magicSeed) = 2
    /\ checkSumSeed \in Word
    /\ Contents \subseteq Seq(Word) /\ Leftover \subseteq Word
    /\ \A content \in Contents : RoundedUp(5 + Len(content)) \in Word

VARIABLES
    receiveBuffer,  \* the words from the start of the DRAM on
    built,          \* the image the build tool wrote
    arrived,        \* what receiveBuffer held when the download had finished
    verdict         \* what validate() said, once it has

imageVars == <<receiveBuffer, built, arrived, verdict>>

(* The header: jumpInstruction, magic (two words), checkSum, payloadLength *)
CheckSumAt == 4
PayloadLengthAt == 5

SumOf(words, n) == MapThenSumSet(LAMBDA i : words[i], 1..n) % WordSpace

-----------------------------------------------------------------------------
(* The build tool.                                                         *)

(* Header and content, zeros up to a whole block, and in the field of the  *)
(* checksum the sum of all with the seed in that field.                    *)
Build(content) ==
    LET length == RoundedUp(5 + Len(content))
        seeded == <<1>> \o magicSeed \o <<checkSumSeed, length>> \o content
                  \o [i \in 1..(length - 5 - Len(content)) |-> 0]
    IN  [seeded EXCEPT ![CheckSumAt] = SumOf(seeded, length)]

-----------------------------------------------------------------------------
(* BootFileHeader::validate()                                              *)

PayloadLength == receiveBuffer[PayloadLengthAt]

HeaderFits ==
    /\ PayloadLength # 0 /\ PayloadLength % blockSize = 0
    /\ SubSeq(receiveBuffer, 2, 3) = magicSeed

Seeded == [receiveBuffer EXCEPT ![CheckSumAt] = checkSumSeed]

SumsUpUnseeded == receiveBuffer[CheckSumAt] = SumOf(receiveBuffer, PayloadLength)

SumsUp == receiveBuffer[CheckSumAt] = SumOf(Seeded, PayloadLength)

(* The checksum field is overwritten once the header has been accepted.    *)
Validate ==
    /\ verdict = "none"
    /\ verdict' = IF HeaderFits /\ SumsUp THEN "run" ELSE "refuse"
    /\ receiveBuffer' = IF HeaderFits THEN Seeded ELSE receiveBuffer
    /\ UNCHANGED <<built, arrived>>

-----------------------------------------------------------------------------
(* What is in the buffer when the download has finished: the image as it   *)
(* was built, with one word changed, or only its first words, none of them *)
(* perhaps; behind it the DRAM holds a word that is left over.  The DRAM   *)
(* goes on as far as any length reaches.  (The board's ends before the     *)
(* greatest lengths do; what a read behind its end gives is not known.)    *)

Over(words, left) ==
    words \o [i \in 1..(WordSpace - Len(words)) |-> left]

Parts(image) ==
    { [image EXCEPT ![i] = word] : i \in DOMAIN image, word \in Word }
    \cup { SubSeq(image, 1, n) : n \in 0..Len(image) }

Arrivals(image) ==
    { Over(words, left) : words \in Parts(image), left \in Leftover }

ImageInit ==
    /\ \E content \in Contents :
        /\ built = Build(content)
        /\ receiveBuffer \in Arrivals(built)
        /\ arrived = receiveBuffer
    /\ verdict = "none"

ImageNext == Validate

ImageSpec == ImageInit /\ [][ImageNext]_imageVars

-----------------------------------------------------------------------------
(* Properties.                                                             *)

(* The words of the image that did not arrive as the tool wrote them.      *)
Differing == { i \in DOMAIN built : arrived[i] # built[i] }

(* Bootloader.cpp, validate() and build_tool: they agree on the sum.  The  *)
(* image the tool wrote is run, whatever the DRAM holds behind it.  One    *)
(* with a single word that differs is refused, also when that word is the  *)
(* checksum, unless it is payloadLength: validate() believes the length it *)
(* finds (Bootloader.cpp:19), and the words it then adds up more or fewer  *)
(* may make up for the difference.  Any other image that is run although   *)
(* it is damaged or cut differs in two words at least.                     *)
VerdictIsRight ==
    /\ verdict = "refuse" => Differing # {}
    /\ verdict = "run" =>
        Cardinality(Differing) # 1 \/ Differing = {PayloadLengthAt}
=============================================================================
