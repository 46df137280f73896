--------------------------- MODULE IdeDisk_proofs ---------------------------
(***************************************************************************)
(* IdeDisk for every size of the registers, the sectors and the images:    *)
(* its types, and, when the guest asks for sectors by LBA or stays within  *)
(* one setting of the CHS registers, that it is a disk: SectorDisk.  The   *)
(* invariant says how far driver and drive are in a request, where the     *)
(* registers point, and that the buffer holds what is there.               *)
(***************************************************************************)
EXTENDS IdeDisk, SequenceTheorems, TLAPS

(* What a word, a sector and a file of sectors are.                        *)
Tags    == {"old", "new", "hole", "identify", "nothing"} \X Nat
WordSet == Tags \X (1 .. Words)
SectorSet == [1 .. Words -> WordSet]

ImagesAre(files) == /\ files \in [Sizes -> Seq(SectorSet)]
                    /\ \A i \in Sizes : Len(files[i]) <= Word32

(* Of the disk and the driver that asks.                                   *)
DiskTypes ==
  /\ ImagesAre(images)
  /\ disk_image \in Sizes \cup {0}
  /\ device \in Devices /\ low \in Bytes /\ mid \in Bytes /\ count \in Bytes
  /\ status \in {"zero", "ready", "drq", "error"}
  /\ current_command \in Commands \cup {"none"}
  /\ sector_buffer \in SectorSet /\ buffer_index \in 0 .. Words - 1
  /\ sectors_remaining \in 0 .. Byte
  /\ guest \in {"idle", "issue", "poll", "transfer"}
  /\ request \in Requests \cup {NoRequest}
  /\ moved \in Seq(SectorSet) /\ part \in Seq(WordSet)
  /\ outcome \in {"none", "ok", "failed"} /\ void \in BOOLEAN
  /\ requests \in 0 .. MaxRequests /\ exchanges \in 0 .. MaxExchanges

(* Where the driver and the drive are in a request, whatever the image.    *)
Served == guest \in {"poll", "transfer"} /\ status = "drq"
OfSectors == request.cmd \in {"read", "write"}

TurnInv ==
  /\ guest = "idle" <=> request = NoRequest
  /\ guest = "idle" => ~void
  /\ guest \in {"idle", "issue"} => moved = <<>>
  /\ guest # "transfer" => part = <<>>
  /\ guest \in {"poll", "transfer"} => current_command = request.cmd
  /\ guest = "transfer" => status = "drq"
  /\ guest # "idle" => Len(moved) <= request.count
  /\ ~OfSectors => moved = <<>>
  /\ guest = "issue" => request.count = Total(count)
  /\ Served => /\ request.cmd \in {"read", "write", "identify"}
               /\ buffer_index = Len(part)
  /\ Served /\ OfSectors =>
       /\ sectors_remaining >= 1
       /\ sectors_remaining + Len(moved) = request.count

(* Where the registers are in it, and what the buffer holds, when the      *)
(* guest asks for sectors in the ways that stay on the disk.               *)
Addressed(remaining) ==
  device.lba \/ (low # 0 /\ low + remaining <= Byte)

IssueInv ==
  guest = "issue" =>
    /\ request.start = Linear(device, low, mid)
    /\ request.cmd \in {"read", "write", "verify"} =>
         request.start <= LastStart /\ Addressed(request.count)

Place == request.start + Len(moved) + 1

BufferInv ==
  Served /\ OfSectors /\ ~void =>
    /\ disk_image # 0
    /\ request.start <= LastStart
    /\ request.start + request.count <= Len(images[disk_image])
    /\ Linear(device, low, mid) + 1 = Place
    /\ Addressed(sectors_remaining)
    /\ request.cmd = "read" => sector_buffer = images[disk_image][Place]
    /\ request.cmd = "write" =>
         \A i \in 1 .. Len(part) : sector_buffer[i] = Source(Len(moved))[i]
    /\ \A i \in 1 .. Len(part) : part[i] = sector_buffer[i]

Tame     == Addressing \subseteq {"lba", "chs"}
PlaceInv == Tame => IssueInv /\ BufferInv

DiskInv == DiskTypes /\ TurnInv /\ PlaceInv

(* What a step must be.                                                    *)
SizesKept == ~void => \A i \in Sizes : Len(images'[i]) = Len(images[i])
GoodStep  == Tame => [Disk!Next]_(Disk!vars) /\ SizesKept

-----------------------------------------------------------------------------
(* The constants.                                                          *)
LEMMA IdeConstants ==
  /\ Byte \in Nat \ {0} /\ Word32 \in Nat \ {0} /\ Words \in Nat \ {0}
  /\ heads \in Nat \ {0} /\ sectors \in Nat \ {0}
  /\ Byte * Byte \in Nat /\ Byte * Byte < Word32
  /\ LastStart \in Nat /\ LastStart + Byte <= Byte * Byte
  /\ LastStart + Byte < Word32
  /\ Sizes \subseteq 1 .. Word32 /\ 0 \notin Sizes
  /\ Counts \subseteq Bytes
  /\ MaxRequests \in Nat /\ MaxExchanges \in Nat
<1>1. /\ Byte \in Nat \ {0} /\ Word32 \in Nat \ {0} /\ Words \in Nat \ {0}
      /\ heads \in Nat \ {0} /\ sectors \in Nat \ {0}
  BY IdeAssumption
<1>2. Byte * Byte \in Nat
  BY <1>1
<1>3. /\ Byte * Byte < Word32
      /\ LastStart + Byte <= Byte * Byte /\ LastStart \in Nat
  BY IdeAssumption
<1>4. LastStart + Byte < Word32
  <2> DEFINE square == Byte * Byte
  <2> HIDE DEF square
  <2>1. square \in Nat /\ square < Word32 /\ LastStart + Byte <= square
    BY <1>2, <1>3 DEF square
  <2> QED
    BY <1>1, <1>3, <2>1
<1> QED
  BY <1>1, <1>2, <1>3, <1>4, IdeAssumption DEF Bytes

(* What is written is made of words.                                       *)
LEMMA SectorsAre ==
  /\ \A n \in Nat : Old(n) \in SectorSet /\ Source(n) \in SectorSet
  /\ Hole \in SectorSet /\ Identify \in SectorSet /\ Nothing \in SectorSet
  /\ \A s \in SectorSet, i \in 1 .. Words : s[i] \in WordSet
  BY DEF Old, Source, Hole, Identify, Nothing, Sector, SectorSet, WordSet, Tags

(* The device register: the head is a number.                              *)
LEMMA DeviceIs == \A d \in Devices : d.head \in Nat
<1> SUFFICES ASSUME NEW d \in Devices PROVE d.head \in Nat
  OBVIOUS
<1>1. d.head \in {0} \cup (0 .. heads - 1)
  BY DEF Devices
<1> QED
  BY <1>1, IdeConstants

(* Counting modulo W, short of the last number.                            *)
LEMMA NextModulo ==
  ASSUME NEW W \in Nat \ {0}, NEW a \in Nat, (a % W) < W - 1
  PROVE  (a + 1) % W = (a % W) + 1
<1> DEFINE q == a \div W
           r == a % W
<1>1. q \in Nat /\ r \in 0 .. W - 1 /\ a = (W * q) + r
  OBVIOUS
<1>2. r + 1 \in 0 .. W - 1 /\ a + 1 = (W * q) + (r + 1)
  BY <1>1
<1> HIDE DEF q, r
<1>3. \A s \in 0 .. W - 1 : ((W * q) + s) % W = s
  BY <1>1
<1> QED
  BY <1>2, <1>3 DEF r

(* Two digits are less than their base squared.                            *)
LEMMA TwoDigits ==
  ASSUME NEW B \in Nat \ {0}, NEW l \in 0 .. B - 1, NEW m \in 0 .. B - 1
  PROVE  /\ m * B \in Nat /\ l + (m * B) < B * B
         /\ m < B - 1 => (m + 1) * B = (m * B) + B
         /\ m = B - 1 => (m * B) + B = B * B
<1>1. (m + 1) * B <= B * B
  <2>1. m + 1 <= B
    OBVIOUS
  <2> QED
    BY <2>1
<1>2. (m + 1) * B = (m * B) + B /\ m * B \in Nat
  OBVIOUS
<1>3. m = B - 1 => (m + 1) * B = B * B
  OBVIOUS
<1> QED
  BY <1>1, <1>2, <1>3

(* Registers name an LBA of 32 bits (ide_get_lba).                         *)
LEMMA LinearIn ==
  ASSUME NEW d \in Devices, NEW l \in Bytes, NEW m \in Bytes
  PROVE  Linear(d, l, m) \in 0 .. Word32 - 1
<1>1. CASE d.lba
  <2>1. m * Byte \in Nat /\ l + (m * Byte) < Byte * Byte
    BY IdeConstants, TwoDigits DEF Bytes
  <2> QED
    BY <1>1, <2>1, IdeConstants DEF Linear, Bytes
<1>2. CASE ~d.lba
  <2> DEFINE product == ((m * heads) + d.head) * sectors
  <2>1. d.head \in Nat /\ l \in Nat /\ m \in Nat
    BY IdeConstants, DeviceIs DEF Bytes
  <2>2. product \in Nat
    BY <2>1, IdeConstants
  <2>3. Linear(d, l, m) = (product + l + Word32 - 1) % Word32
    BY <1>2 DEF Linear
  <2> HIDE DEF product
  <2>4. product + l + Word32 - 1 \in Nat
    BY <2>1, <2>2, IdeConstants
  <2> QED
    BY <2>3, <2>4, IdeConstants
<1> QED
  BY <1>1, <1>2

(* increment_lba_regs names the next one: by LBA always, else while the    *)
(* sector register does not run out.                                       *)
LEMMA LinearNext ==
  ASSUME NEW d \in Devices, NEW l \in Bytes, NEW m \in Bytes,
         NEW l2 \in Bytes, NEW m2 \in Bytes,
         l2 = (l + 1) % Byte, m2 = IF l2 = 0 THEN (m + 1) % Byte ELSE m,
         Linear(d, l, m) + 1 < LastStart + Byte,
         d.lba \/ (l # 0 /\ l + 1 < Byte)
  PROVE  /\ Linear(d, l2, m2) = Linear(d, l, m) + 1
         /\ ~d.lba => l2 = l + 1
<1>1. CASE d.lba
  <2> DEFINE square == Byte * Byte
             product == m * Byte
  <2>1. Linear(d, l, m) = l + product /\ Linear(d, l2, m2) = l2 + (m2 * Byte)
    BY <1>1 DEF Linear
  <2>2. /\ product \in Nat /\ l + product < square
        /\ m < Byte - 1 => (m + 1) * Byte = product + Byte
        /\ m = Byte - 1 => product + Byte = square
    BY IdeConstants, TwoDigits DEF Bytes
  <2>3. square \in Nat /\ LastStart + Byte <= square
    BY IdeConstants
  <2>4. l \in 0 .. Byte - 1 /\ m \in 0 .. Byte - 1
        /\ Byte \in Nat \ {0} /\ LastStart \in Nat
    BY IdeConstants DEF Bytes
  <2>5. CASE l < Byte - 1
    <3>1. l2 = l + 1 /\ m2 = m
      BY <2>4, <2>5
    <3> QED
      BY <1>1, <2>1, <2>2, <2>4, <3>1
  <2>6. CASE l = Byte - 1
    <3> HIDE DEF product, square
    <3>1. l2 = 0
      BY <2>4, <2>6
    <3>2. m < Byte - 1
      BY <2>1, <2>2, <2>3, <2>4, <2>6
    <3>3. m2 = m + 1
      BY <2>4, <3>1, <3>2
    <3> QED
      BY <1>1, <2>1, <2>2, <2>4, <2>6, <3>1, <3>2, <3>3
  <2> QED
    BY <2>4, <2>5, <2>6
<1>2. CASE ~d.lba
  <2> DEFINE product == ((m * heads) + d.head) * sectors
             n == product + l + Word32 - 1
  <2>1. /\ d.head \in Nat /\ l \in Nat /\ m \in Nat /\ l # 0 /\ l + 1 < Byte
        /\ LastStart \in Nat /\ LastStart + Byte < Word32
        /\ Byte \in Nat /\ Word32 \in Nat \ {0}
    BY <1>2, IdeConstants, DeviceIs DEF Bytes
  <2>2. product \in Nat
    BY <2>1, IdeConstants
  <2>3. l2 = l + 1 /\ m2 = m
    BY <2>1
  <2>4. Linear(d, l, m) = n % Word32
        /\ Linear(d, l2, m2) = (product + (l + 1) + Word32 - 1) % Word32
    BY <1>2, <2>3 DEF Linear
  <2> HIDE DEF product
  <2>5. n \in Nat /\ product + (l + 1) + Word32 - 1 = n + 1
    BY <2>1, <2>2
  <2> HIDE DEF n
  <2>6. (n % Word32) < Word32 - 1
    BY <2>1, <2>4, <2>5
  <2> QED
    BY <2>1, <2>3, <2>4, <2>5, <2>6, NextModulo
<1> QED
  BY <1>1, <1>2

(* The ways of asking that stay within one setting of the registers.       *)
LEMMA TameIs ==
  ASSUME NEW d \in Devices, NEW l \in Bytes, NEW n \in Bytes,
         Style(d, l, n) \in {"lba", "chs"}
  PROVE  d.lba \/ (l # 0 /\ l + Total(n) <= Byte)
<1>1. Total(n) \in 1 .. Byte /\ l \in Nat /\ Byte \in Nat
  BY IdeConstants DEF Total, Bytes
<1>2. CASE d.lba
  BY <1>2
<1>3. CASE ~d.lba /\ l = 0
  BY <1>3 DEF Style
<1>4. CASE ~d.lba /\ l # 0 /\ l + Total(n) > Byte
  BY <1>1, <1>4 DEF Style
<1>5. CASE ~d.lba /\ l # 0 /\ l + Total(n) <= Byte
  BY <1>5
<1> QED
  BY <1>1, <1>2, <1>3, <1>4, <1>5

(* A count of 0 is a full one.                                             *)
LEMMA TotalIn == \A n \in Bytes : Total(n) \in 1 .. Byte
  BY IdeConstants DEF Total, Bytes

-----------------------------------------------------------------------------
(* The image file.  f_lseek() below its end does nothing to it, past its   *)
(* end it grows.                                                           *)
LEMMA ExtendIs ==
  ASSUME NEW f \in Seq(SectorSet), NEW size \in Nat
  PROVE  /\ Extend(f, size) \in Seq(SectorSet)
         /\ Len(f) \in Nat
         /\ Len(Extend(f, size)) = IF size > Len(f) THEN size ELSE Len(f)
         /\ size <= Len(f) => Extend(f, size) = f
         /\ \A n \in 1 .. Len(f) : Extend(f, size)[n] = f[n]
<1> DEFINE n == IF size > Len(f) THEN size - Len(f) ELSE 0
           holes == [k \in 1 .. n |-> Hole]
<1>1. Len(f) \in Nat /\ n \in Nat
  BY LenProperties
<1>2. holes \in Seq(SectorSet) /\ Len(holes) = n
  <2> HIDE DEF n
  <2>1. holes \in [1 .. n -> SectorSet]
    BY SectorsAre
  <2> QED
    BY <1>1, <2>1
<1>3. n = 0 => holes = <<>>
  <2> HIDE DEF n
  <2> QED
    BY <1>2, EmptySeq, SeqEqual
<1>4. Extend(f, size) = f \o holes
  BY DEF Extend
<1> HIDE DEF holes
<1>5. /\ f \o holes \in Seq(SectorSet) /\ Len(f \o holes) = Len(f) + n
      /\ \A k \in 1 .. Len(f) : (f \o holes)[k] = f[k]
  <2> HIDE DEF n
  <2>1. /\ f \o holes \in Seq(SectorSet) /\ Len(f \o holes) = Len(f) + n
        /\ \A k \in 1 .. Len(f) + n : k <= Len(f) => (f \o holes)[k] = f[k]
    BY <1>2, ConcatProperties
  <2>2. \A k \in 1 .. Len(f) : k \in 1 .. Len(f) + n /\ k <= Len(f)
    BY <1>1
  <2> QED
    BY <2>1, <2>2
<1>6. size <= Len(f) => Extend(f, size) = f
  BY <1>1, <1>3, <1>4, ConcatEmptySeq
<1> QED
  BY <1>1, <1>4, <1>5, <1>6

(* f_read(): what is there, or zeroes past the end.                        *)
LEMMA AtIs ==
  ASSUME NEW f \in Seq(SectorSet), NEW lba \in Nat
  PROVE  /\ At(f, lba) \in SectorSet
         /\ lba < Len(f) => At(f, lba) = f[lba + 1]
<1>1. Len(f) \in Nat
  BY LenProperties
<1>2. lba < Len(f) => f[lba + 1] \in SectorSet
  BY <1>1, ElementOfSeq
<1> QED
  BY <1>2, SectorsAre DEF At

(* f_write() of one sector.                                                *)
LEMMA PutIs ==
  ASSUME NEW f \in Seq(SectorSet), NEW lba \in Nat, NEW sector \in SectorSet
  PROVE  /\ Put(f, lba, sector) \in Seq(SectorSet)
         /\ Len(Put(f, lba, sector)) = IF lba < Len(f) THEN Len(f) ELSE lba + 1
         /\ lba < Len(f) =>
              Put(f, lba, sector) = [f EXCEPT ![lba + 1] = sector]
<1> DEFINE g == Extend(f, lba + 1)
<1>1. /\ g \in Seq(SectorSet) /\ Len(f) \in Nat
      /\ Len(g) = IF lba + 1 > Len(f) THEN lba + 1 ELSE Len(f)
      /\ lba + 1 <= Len(f) => g = f
  BY ExtendIs
<1>2. Put(f, lba, sector) = [g EXCEPT ![lba + 1] = sector]
  BY DEF Put
<1> HIDE DEF g
<1>3. lba + 1 \in 1 .. Len(g)
  BY <1>1
<1>4. /\ [g EXCEPT ![lba + 1] = sector] \in Seq(SectorSet)
      /\ Len([g EXCEPT ![lba + 1] = sector]) = Len(g)
  BY <1>1, <1>3, ExceptSeq
<1>5. CASE lba < Len(f)
  <2>1. g = f /\ Len(g) = Len(f)
    BY <1>1, <1>5
  <2> QED
    BY <1>2, <1>4, <1>5, <2>1
<1>6. CASE ~(lba < Len(f))
  <2>1. Len(g) = lba + 1
    BY <1>1, <1>6
  <2> QED
    BY <1>2, <1>4, <1>6, <2>1
<1> QED
  BY <1>5, <1>6

(* The images stay images when one of them is replaced.                    *)
LEMMA ImageReplaced ==
  ASSUME ImagesAre(images), NEW i \in Sizes, NEW f \in Seq(SectorSet),
         Len(f) <= Word32
  PROVE  /\ ImagesAre([images EXCEPT ![i] = f])
         /\ [images EXCEPT ![i] = f][i] = f
         /\ f = images[i] => [images EXCEPT ![i] = f] = images
         /\ Len(f) = Len(images[i]) =>
              \A k \in Sizes : Len([images EXCEPT ![i] = f][k]) = Len(images[k])
  BY DEF ImagesAre

(* Reading a sector into the buffer: the images stay images, and a sector  *)
(* of the disk is read as it is.                                           *)
LEMMA LoadDoes ==
  ASSUME DiskTypes, NEW lba \in 0 .. Word32 - 1, NEW ok \in BOOLEAN,
         load_sector_from_disk(lba, ok)
  PROVE  /\ ImagesAre(images') /\ sector_buffer' \in SectorSet
         /\ ok => disk_image # 0
         /\ disk_image # 0 /\ lba < Len(images[disk_image]) =>
              /\ images' = images
              /\ ok => sector_buffer' = images[disk_image][lba + 1]
<1>1. ImagesAre(images) /\ sector_buffer \in SectorSet /\ lba \in Nat
      /\ lba <= Word32 /\ Word32 \in Nat
  BY IdeConstants DEF DiskTypes
<1>2. CASE ~ok /\ UNCHANGED <<images, sector_buffer>>
  BY <1>1, <1>2
<1>3. CASE /\ disk_image # 0
           /\ images' = [images EXCEPT ![disk_image] = Extend(@, lba)]
           /\ \/ ok /\ sector_buffer' = At(images[disk_image], lba)
              \/ ~ok /\ UNCHANGED sector_buffer
  <2> DEFINE f == images[disk_image]
  <2>1. disk_image \in Sizes
    BY <1>3 DEF DiskTypes
  <2>2. f \in Seq(SectorSet) /\ Len(f) <= Word32
    BY <1>1, <2>1 DEF ImagesAre
  <2>3. images' = [images EXCEPT ![disk_image] = Extend(f, lba)]
    BY <1>3, <2>1
  <2>4. /\ Extend(f, lba) \in Seq(SectorSet) /\ Len(f) \in Nat
        /\ Len(Extend(f, lba)) <= Word32
        /\ lba < Len(f) => Extend(f, lba) = f
    <3> HIDE DEF f
    <3> QED
      BY <1>1, <2>2, ExtendIs
  <2>5. At(f, lba) \in SectorSet /\ (lba < Len(f) => At(f, lba) = f[lba + 1])
    BY <1>1, <2>2, AtIs
  <2> DEFINE e == Extend(f, lba)
  <2>6. /\ e \in Seq(SectorSet) /\ Len(e) <= Word32
        /\ images' = [images EXCEPT ![disk_image] = e]
        /\ lba < Len(f) => e = f
    BY <2>3, <2>4
  <2> HIDE DEF e
  <2>7. /\ ImagesAre(images')
        /\ lba < Len(f) => images' = images
    BY <1>1, <2>1, <2>6, ImageReplaced
  <2>8. /\ sector_buffer' \in SectorSet
        /\ ok /\ lba < Len(f) => sector_buffer' = f[lba + 1]
    BY <1>1, <1>3, <2>5
  <2> QED
    BY <1>3, <2>7, <2>8
<1> QED
  BY <1>2, <1>3 DEF load_sector_from_disk

(* Writing one: nothing, or that sector of the mounted image.              *)
LEMMA StoreDoes ==
  ASSUME DiskTypes, NEW lba \in 0 .. Word32 - 1, NEW sector \in SectorSet,
         NEW ok \in BOOLEAN, write_sector_to_disk(lba, sector, ok)
  PROVE  /\ ImagesAre(images')
         /\ \/ ~ok /\ images' = images
            \/ /\ disk_image # 0
               /\ lba < Len(images[disk_image]) =>
                    /\ images'[disk_image] =
                         [images[disk_image] EXCEPT ![lba + 1] = sector]
                    /\ \A i \in Sizes : Len(images'[i]) = Len(images[i])
<1>1. ImagesAre(images) /\ lba \in Nat /\ lba + 1 <= Word32 /\ Word32 \in Nat
  BY IdeConstants DEF DiskTypes
<1>2. CASE ~ok /\ UNCHANGED images
  BY <1>1, <1>2
<1>3. CASE /\ disk_image # 0
           /\ images' = [images EXCEPT ![disk_image] = Put(@, lba, sector)]
  <2> DEFINE f == images[disk_image]
  <2>1. disk_image \in Sizes
    BY <1>3 DEF DiskTypes
  <2>2. f \in Seq(SectorSet) /\ Len(f) <= Word32
    BY <1>1, <2>1 DEF ImagesAre
  <2>3. images' = [images EXCEPT ![disk_image] = Put(f, lba, sector)]
    BY <1>3, <2>1
  <2>4. /\ Put(f, lba, sector) \in Seq(SectorSet)
        /\ Len(Put(f, lba, sector)) <= Word32
        /\ lba < Len(f) =>
             /\ Put(f, lba, sector) = [f EXCEPT ![lba + 1] = sector]
             /\ Len(Put(f, lba, sector)) = Len(f)
    <3> HIDE DEF f
    <3> QED
      BY <1>1, <2>2, PutIs
  <2> DEFINE e == Put(f, lba, sector)
  <2>5. /\ e \in Seq(SectorSet) /\ Len(e) <= Word32
        /\ images' = [images EXCEPT ![disk_image] = e]
    BY <2>3, <2>4
  <2>6. lba < Len(f) => /\ e = [f EXCEPT ![lba + 1] = sector]
                        /\ Len(e) = Len(images[disk_image])
    BY <2>4
  <2> HIDE DEF e
  <2>7. /\ ImagesAre(images') /\ images'[disk_image] = e
        /\ lba < Len(f) => \A i \in Sizes : Len(images'[i]) = Len(images[i])
    <3> DEFINE next == [images EXCEPT ![disk_image] = e]
    <3>1. /\ ImagesAre(next) /\ next[disk_image] = e
          /\ Len(e) = Len(images[disk_image]) =>
               \A i \in Sizes : Len(next[i]) = Len(images[i])
      BY <1>1, <2>1, <2>5, ImageReplaced
    <3>2. images' = next
      BY <2>5
    <3> HIDE DEF next
    <3> QED
      BY <2>6, <3>1, <3>2
  <2> QED
    BY <1>3, <2>6, <2>7
<1> QED
  BY <1>2, <1>3 DEF write_sector_to_disk

-----------------------------------------------------------------------------
(* A fresh machine.                                                        *)
LEMMA DiskStarts == Init => DiskInv
<1> SUFFICES ASSUME Init PROVE DiskInv
  OBVIOUS
<1>1. ImagesAre(images)
  <2>1. ASSUME NEW i \in Sizes
        PROVE  images[i] \in Seq(SectorSet) /\ Len(images[i]) = i
    <3>1. i \in Nat /\ images[i] = [n \in 1 .. i |-> Old(n)]
      BY IdeConstants DEF Init
    <3>2. [n \in 1 .. i |-> Old(n)] \in [1 .. i -> SectorSet]
      BY <3>1, SectorsAre
    <3> QED
      BY <3>1, <3>2
  <2>2. images = [i \in Sizes |-> images[i]]
    BY DEF Init
  <2> QED
    BY <2>1, <2>2, IdeConstants DEF ImagesAre
<1>2. device \in Devices
  <2>1. 0 \in 0 .. heads - 1
    BY IdeConstants
  <2> QED
    BY <2>1 DEF Init, Devices
<1>3. <<>> \in Seq(SectorSet) /\ <<>> \in Seq(WordSet) /\ Len(<<>>) = 0
  BY EmptySeq
<1>4. 0 \in Bytes /\ 0 \in 0 .. Words - 1 /\ 0 \in 0 .. Byte
      /\ 0 \in 0 .. MaxRequests /\ 0 \in 0 .. MaxExchanges
  BY IdeConstants DEF Bytes
<1>5. DiskTypes
  BY <1>1, <1>2, <1>3, <1>4, SectorsAre DEF Init, DiskTypes
<1>6. TurnInv
  BY DEF Init, TurnInv, Served, OfSectors, NoRequest
<1>7. PlaceInv
  BY DEF Init, PlaceInv, IssueInv, BufferInv, Served
<1> QED
  BY <1>5, <1>6, <1>7 DEF DiskInv

(* A request is a request.                                                 *)
LEMMA RequestParts ==
  /\ \A q \in Requests : /\ q # NoRequest /\ q.cmd \in Commands
                         /\ q.start \in 0 .. Word32 - 1 /\ q.count \in 1 .. Byte
  /\ NoRequest.cmd = "none" /\ "none" \notin Commands
<1>1. "none" \notin Commands
  BY DEF Commands
<1> QED
  BY <1>1 DEF Requests, NoRequest

(* The driver takes a request and loads the registers.                     *)
LEMMA StartKeeps ==
  ASSUME DiskInv, NEW cmd \in Commands, NEW d \in Devices, NEW l \in Bytes,
         NEW m \in Bytes, NEW n \in Counts, Start(cmd, d, l, m, n)
  PROVE  DiskInv' /\ GoodStep
<1> USE DEF DiskInv
<1>1. /\ request' = [cmd |-> cmd, start |-> Linear(d, l, m), count |-> Total(n)]
      /\ request' \in Requests
  <2>1. n \in Bytes
    BY IdeConstants
  <2> QED
    BY <2>1, LinearIn, TotalIn DEF Start, Request, Requests
<1>2. /\ request = NoRequest /\ ~void /\ guest = "idle"
      /\ moved = <<>> /\ part = <<>> /\ Len(moved) = 0
  BY EmptySeq DEF TurnInv, Start
<1>3. DiskTypes'
  BY <1>1, IdeConstants DEF Start, DiskTypes
<1>4. TurnInv'
  <2>1. Total(n) \in Nat
    BY IdeConstants, TotalIn
  <2> QED
    BY <1>1, <1>2, <2>1, RequestParts
       DEF Start, TurnInv, Served, OfSectors, DiskTypes
<1>5. ASSUME Tame PROVE IssueInv'
  <2> SUFFICES ASSUME cmd \in {"read", "write", "verify"}
               PROVE  Linear(d, l, m) <= LastStart
                      /\ (d.lba \/ (l # 0 /\ l + Total(n) <= Byte))
    BY <1>1 DEF Start, IssueInv, Addressed
  <2>1. Style(d, l, n) \in Addressing
        /\ (Linear(d, l, m) <= LastStart \/ Style(d, l, n) = "chs zero")
    BY DEF Start, Asked
  <2>2. Style(d, l, n) \in {"lba", "chs"} /\ Style(d, l, n) # "chs zero"
    BY <1>5, <2>1 DEF Tame
  <2> QED
    BY <2>1, <2>2, TameIs, IdeConstants
<1>6. BufferInv'
  BY DEF Start, BufferInv, Served
<1>7. Disk!Next
  BY <1>1, <1>2 DEF Start, Disk!Next, Disk!Ask
<1> QED
  BY <1>3, <1>4, <1>5, <1>6, <1>7 DEF PlaceInv, GoodStep, SizesKept, Start

(* The end of a request: the driver polls the end, or gives up.            *)
LEMMA EndKeeps ==
  ASSUME DiskInv, NEW result \in {"ok", "failed"}, EndRequest(result),
         guest # "idle", result = "ok" => guest = "poll" /\ AllMoved
  PROVE  DiskInv' /\ GoodStep
<1> USE DEF DiskInv, EndRequest
<1>1. request # NoRequest
  BY DEF TurnInv
<1>2. <<>> \in Seq(SectorSet) /\ <<>> \in Seq(WordSet) /\ Len(<<>>) = 0
  BY EmptySeq
<1>3. DiskTypes'
  BY <1>2 DEF DiskTypes, regs, drive
<1>4. TurnInv'
  BY <1>2 DEF TurnInv, Served, OfSectors, NoRequest
<1>5. PlaceInv'
  BY DEF PlaceInv, IssueInv, BufferInv, Served
<1>6. Disk!End
  BY <1>1 DEF Disk!End, AllMoved
<1> QED
  BY <1>3, <1>4, <1>5, <1>6 DEF GoodStep, SizesKept, Disk!Next

(* The driver sees the data request, or the end.                           *)
LEMMA PollKeeps ==
  ASSUME DiskInv, Poll
  PROVE  DiskInv' /\ GoodStep
<1>1. CASE /\ status = "drq" /\ request.cmd \in {"read", "write", "identify"}
           /\ guest' = "transfer"
           /\ UNCHANGED <<images, disk_image, regs, drive, request, moved, part,
                          outcome, void, requests, exchanges>>
  <2>1. DiskTypes'
    BY <1>1 DEF DiskInv, DiskTypes, regs, drive
  <2>2. TurnInv'
    BY <1>1 DEF DiskInv, TurnInv, Served, OfSectors, Poll, drive
  <2>3. PlaceInv'
    BY <1>1 DEF DiskInv, PlaceInv, IssueInv, BufferInv, Served, OfSectors,
                Addressed, Place, Poll, drive, regs
  <2>4. UNCHANGED Disk!vars
    BY <1>1 DEF Disk!vars
  <2> QED
    BY <1>1, <2>1, <2>2, <2>3, <2>4 DEF DiskInv, GoodStep, SizesKept
<1>2. CASE EndRequest(IF status = "ready" /\ AllMoved THEN "ok" ELSE "failed")
  BY <1>2, EndKeeps DEF Poll
<1> QED
  BY <1>1, <1>2 DEF Poll

(* The driver is cut off.                                                  *)
LEMMA RestartKeeps ==
  ASSUME DiskInv, Restart
  PROVE  DiskInv' /\ GoodStep
  BY EndKeeps DEF Restart

(* Another image, or none: whatever was going on is void.                  *)
LEMMA ExchangeKeeps ==
  ASSUME DiskInv, Exchange
  PROVE  DiskInv' /\ GoodStep
<1>1. DiskTypes'
  BY IdeConstants DEF DiskInv, DiskTypes, Exchange, regs, drive, driver
<1>2. TurnInv'
  BY DEF DiskInv, TurnInv, Served, OfSectors, Exchange, regs, drive, driver
<1>3. PlaceInv'
  <2>1. IssueInv => IssueInv'
    BY DEF IssueInv, Addressed, Exchange, regs, driver
  <2>2. BufferInv'
    BY DEF DiskInv, TurnInv, BufferInv, Served, OfSectors, Exchange, driver
  <2> QED
    BY <2>1, <2>2 DEF DiskInv, PlaceInv
<1>4. Disk!Exchange
  BY DEF Exchange, driver, Disk!Exchange
<1> QED
  BY <1>1, <1>2, <1>3, <1>4
     DEF DiskInv, GoodStep, SizesKept, Exchange, Disk!Next

-----------------------------------------------------------------------------
(* A command.  A request asked for in a tame way that passes the check of  *)
(* the bounds lies on the disk (ide.h 232, 263).                           *)
LEMMA OnTheDisk ==
  ASSUME DiskInv, Tame, guest = "issue", OfSectors, disk_image # 0, InBounds
  PROVE  /\ ide_get_lba = request.start
         /\ request.start + request.count <= Len(images[disk_image])
<1>1. /\ request.start = ide_get_lba /\ request.count = Total(count)
      /\ request.start <= LastStart
  BY DEF DiskInv, PlaceInv, IssueInv, TurnInv, OfSectors, ide_get_lba
<1>2. ide_get_lba \in 0 .. Word32 - 1 /\ Total(count) \in 1 .. Byte
  BY LinearIn, TotalIn DEF DiskInv, DiskTypes, ide_get_lba
<1>3. (ide_get_lba + Total(count)) % Word32 = ide_get_lba + Total(count)
  <2> HIDE DEF ide_get_lba
  <2>1. ide_get_lba + Total(count) \in 0 .. Word32 - 1
    BY <1>1, <1>2, IdeConstants
  <2> QED
    BY <2>1, IdeConstants
<1> QED
  BY <1>1, <1>3 DEF InBounds

(* What a command leaves for the transfer.                                 *)
CommandDone ==
  /\ ImagesAre(images') /\ sector_buffer' \in SectorSet
  /\ status' \in {"ready", "drq", "error"}
  /\ sectors_remaining' \in 0 .. Byte
  /\ status' = "drq" =>
       /\ request.cmd \in {"read", "write", "identify"}
       /\ OfSectors => sectors_remaining' = request.count
  /\ Tame => images' = images
  /\ Tame /\ status' = "drq" /\ OfSectors =>
       /\ disk_image # 0
       /\ request.start + request.count <= Len(images[disk_image])
       /\ request.cmd = "read" =>
            sector_buffer' = images[disk_image][request.start + 1]

(* Every command leaves it so.                                             *)
LEMMA CommandDoes ==
  ASSUME DiskInv, guest = "issue", handle_command(request.cmd)
  PROVE  CommandDone
<1>1. /\ ImagesAre(images) /\ sector_buffer \in SectorSet
      /\ sectors_remaining \in 0 .. Byte /\ request.count = Total(count)
      /\ count \in Bytes /\ Total(count) \in 1 .. Byte
  BY TotalIn DEF DiskInv, DiskTypes, TurnInv
<1>2. Total(count) \in 0 .. Byte
  BY <1>1, IdeConstants
<1>3. CASE /\ status' \in {"ready", "error"}
           /\ UNCHANGED <<images, sector_buffer, sectors_remaining>>
  BY <1>1, <1>3 DEF CommandDone
<1>4. CASE request.cmd = "identify" /\ ide_identify
  BY <1>1, <1>4, SectorsAre DEF CommandDone, ide_identify, OfSectors
<1>5. CASE request.cmd = "read" /\ disk_image # 0 /\ InBounds /\ read_sector
  <2>1. CASE Refuse
    BY <1>3, <2>1 DEF Refuse
  <2>2. ASSUME NEW ok \in BOOLEAN,
               load_sector_from_disk(ide_get_lba, ok),
               status' = IF ok THEN "drq" ELSE "error",
               sectors_remaining' = IF ok THEN Total(count)
                                          ELSE sectors_remaining
        PROVE  CommandDone
    <3>1. ide_get_lba \in 0 .. Word32 - 1
      BY LinearIn DEF DiskInv, DiskTypes, ide_get_lba
    <3>2. /\ ImagesAre(images') /\ sector_buffer' \in SectorSet
          /\ ide_get_lba < Len(images[disk_image]) =>
               /\ images' = images
               /\ ok => sector_buffer' = images[disk_image][ide_get_lba + 1]
      BY <1>5, <2>2, <3>1, LoadDoes DEF DiskInv
    <3>3. Tame => /\ ide_get_lba = request.start
                  /\ request.start + request.count <= Len(images[disk_image])
      BY <1>5, OnTheDisk DEF OfSectors
    <3>4. Tame => ide_get_lba < Len(images[disk_image])
      <4>1. Len(images[disk_image]) \in Nat
        BY <1>1, <1>5 DEF DiskInv, DiskTypes, ImagesAre
      <4> HIDE DEF ide_get_lba
      <4> QED
        BY <1>1, <3>1, <3>3, <4>1, IdeConstants
    <3> HIDE DEF ide_get_lba
    <3> QED
      BY <1>1, <1>2, <1>5, <2>2, <3>2, <3>3, <3>4 DEF CommandDone, OfSectors
  <2> QED
    BY <1>5, <2>1, <2>2 DEF read_sector
<1>6. CASE request.cmd = "write" /\ disk_image # 0 /\ InBounds /\ write_sector
  <2>1. CASE Refuse
    BY <1>3, <2>1 DEF Refuse
  <2>2. CASE /\ status' = "drq" /\ sectors_remaining' = Total(count)
             /\ UNCHANGED <<images, sector_buffer>>
    BY <1>1, <1>2, <1>6, <2>2, OnTheDisk DEF CommandDone, OfSectors
  <2> QED
    BY <1>6, <2>1, <2>2 DEF write_sector
<1> QED
  BY <1>3, <1>4, <1>5, <1>6
     DEF handle_command, read_sector, write_sector, read_verify, Refuse

(* The driver gives the command.                                           *)
LEMMA IssueKeeps ==
  ASSUME DiskInv, Issue
  PROVE  DiskInv' /\ GoodStep
<1>1. CommandDone
  BY CommandDoes DEF Issue
<1>2. /\ guest = "issue" /\ guest' = "poll" /\ current_command' = request.cmd
      /\ buffer_index' = 0
      /\ UNCHANGED <<disk_image, device, low, mid, count, request, moved, part,
                     outcome, void, requests, exchanges>>
  BY DEF Issue, handle_command, regs
<1>3. /\ request \in Requests /\ moved = <<>> /\ part = <<>>
      /\ Len(moved) = 0 /\ Len(part) = 0
  BY <1>2, EmptySeq DEF DiskInv, TurnInv, DiskTypes
<1>4. /\ request.start \in 0 .. Word32 - 1 /\ request.count \in 1 .. Byte
      /\ request.cmd \in Commands /\ request # NoRequest
  BY <1>3, RequestParts
<1>5. 0 \in 0 .. Words - 1
  BY IdeConstants
<1>6. DiskTypes'
  BY <1>1, <1>2, <1>4, <1>5 DEF DiskInv, DiskTypes, CommandDone
<1>7. TurnInv'
  BY <1>1, <1>2, <1>3, <1>4, IdeConstants
     DEF CommandDone, TurnInv, Served, OfSectors
<1>8. ASSUME Tame PROVE BufferInv'
  <2> SUFFICES ASSUME Served', OfSectors, ~void PROVE BufferInv'
    BY <1>2 DEF BufferInv, OfSectors
  <2>1. /\ Linear(device, low, mid) = request.start
        /\ request.start <= LastStart /\ Addressed(request.count)
    BY <1>2, <1>8 DEF DiskInv, PlaceInv, IssueInv, OfSectors
  <2>2. /\ disk_image # 0 /\ sectors_remaining' = request.count
        /\ request.start + request.count <= Len(images[disk_image])
        /\ request.cmd = "read" =>
             sector_buffer' = images[disk_image][request.start + 1]
        /\ images' = images
    BY <1>1, <1>8 DEF CommandDone, Served
  <2>3. Place = request.start + 1
    BY <1>3, <1>4 DEF Place
  <2> QED
    BY <1>2, <1>3, <1>4, <2>1, <2>2, <2>3
       DEF BufferInv, Addressed, Place
<1>9. Tame => UNCHANGED Disk!vars
  BY <1>1, <1>2 DEF CommandDone, Disk!vars
<1> QED
  BY <1>1, <1>2, <1>6, <1>7, <1>8, <1>9
     DEF DiskInv, PlaceInv, IssueInv, GoodStep, SizesKept, CommandDone

-----------------------------------------------------------------------------
(* A transfer.  The words of a whole sector are the sector.                *)
LEMMA WholeSector ==
  ASSUME NEW p \in Seq(WordSet), NEW word \in WordSet, Len(p) + 1 = Words
  PROVE  /\ Append(p, word) \in SectorSet
         /\ \A s \in SectorSet :
              word = s[Words] /\ (\A i \in 1 .. Len(p) : p[i] = s[i]) =>
                Append(p, word) = s
<1>1. /\ Append(p, word) \in Seq(WordSet) /\ Len(Append(p, word)) = Words
      /\ \A i \in 1 .. Words :
           Append(p, word)[i] = IF i <= Len(p) THEN p[i] ELSE word
      /\ Len(p) \in Nat
  BY AppendProperties
<1>2. Append(p, word) \in [1 .. Words -> WordSet]
  BY <1>1, LenProperties
<1>3. ASSUME NEW s \in SectorSet, word = s[Words],
             \A i \in 1 .. Len(p) : p[i] = s[i]
      PROVE  \A i \in 1 .. Words : Append(p, word)[i] = s[i]
  BY <1>1, <1>3
<1> QED
  BY <1>2, <1>3 DEF SectorSet

(* Where a transfer stands.                                                *)
LEMMA TransferAt ==
  ASSUME DiskInv, guest = "transfer"
  PROVE  /\ status = "drq" /\ Served /\ current_command = request.cmd
         /\ request \in Requests /\ request # NoRequest
         /\ request.cmd \in {"read", "write", "identify"}
         /\ Len(moved) \in Nat /\ Len(part) \in Nat
         /\ buffer_index = Len(part) /\ Len(part) < Words
         /\ (buffer_index + 1) % Words =
              IF Len(part) + 1 = Words THEN 0 ELSE Len(part) + 1
         /\ OfSectors => sectors_remaining \in 1 .. Byte
<1>1. /\ status = "drq" /\ Served /\ current_command = request.cmd
      /\ request.cmd \in {"read", "write", "identify"}
      /\ buffer_index = Len(part)
      /\ OfSectors => sectors_remaining >= 1
  BY DEF DiskInv, TurnInv, Served
<1>2. request \in Requests /\ request # NoRequest
  BY <1>1, RequestParts DEF DiskInv, DiskTypes
<1>3. Len(moved) \in Nat /\ Len(part) \in Nat /\ buffer_index \in 0 .. Words - 1
  BY LenProperties DEF DiskInv, DiskTypes
<1>4. sectors_remaining \in 0 .. Byte
  BY DEF DiskInv, DiskTypes
<1>5. \A W \in Nat \ {0} : \A k \in 0 .. W - 1 :
        (k + 1) % W = IF k + 1 = W THEN 0 ELSE k + 1
  OBVIOUS
<1> QED
  BY <1>1, <1>2, <1>3, <1>4, <1>5, IdeConstants

(* The word that moves is the next one of its sector.                      *)
Word == IF request.cmd = "write" THEN Source(Len(moved))[Len(part) + 1]
                                 ELSE sector_buffer[buffer_index + 1]

(* It is a word.                                                           *)
LEMMA WordIs ==
  ASSUME DiskInv, guest = "transfer"
  PROVE  /\ Word \in WordSet /\ Source(Len(moved)) \in SectorSet
         /\ sector_buffer \in SectorSet
<1>1. /\ Source(Len(moved)) \in SectorSet /\ sector_buffer \in SectorSet
      /\ Len(part) + 1 \in 1 .. Words /\ buffer_index + 1 \in 1 .. Words
  BY TransferAt, SectorsAre, IdeConstants DEF DiskInv, DiskTypes
<1> QED
  BY <1>1, SectorsAre DEF Word

(* In the middle of a sector only the buffer moves.                        *)
LEMMA WordKeeps ==
  ASSUME DiskInv, Transfer, Len(part) + 1 # Words
  PROVE  DiskInv' /\ GoodStep
<1>1. guest = "transfer"
  BY DEF Transfer
<1> DEFINE k == Len(part) + 1
<1>2. /\ k \in 1 .. Words - 1 /\ k - 1 = Len(part) /\ buffer_index + 1 = k
      /\ (buffer_index + 1) % Words = k
  BY <1>1, TransferAt, IdeConstants
<1>3. /\ buffer_index' = k /\ part' = Append(part, Word) /\ guest' = "transfer"
      /\ moved' = moved /\ status' = status
      /\ sectors_remaining' = sectors_remaining
      /\ UNCHANGED <<images, disk_image, device, low, mid, count,
                     current_command, request, outcome, void, requests,
                     exchanges>>
      /\ sector_buffer' = IF request.cmd = "write"
                            THEN [sector_buffer EXCEPT ![k] = Word]
                            ELSE sector_buffer
  BY <1>2 DEF Transfer, WriteData, ReadData, Word, regs
<1>4. /\ Word \in WordSet /\ Source(Len(moved)) \in SectorSet
      /\ sector_buffer \in SectorSet /\ part \in Seq(WordSet)
  BY <1>1, WordIs DEF DiskInv, DiskTypes
<1>5. /\ part' \in Seq(WordSet) /\ Len(part') = k
      /\ part'[k] = Word /\ \A i \in 1 .. Len(part) : part'[i] = part[i]
  BY <1>2, <1>3, <1>4, AppendProperties
<1>6. /\ sector_buffer' \in SectorSet
      /\ request.cmd = "write" => sector_buffer'[k] = Word
      /\ \A i \in 1 .. Len(part) : sector_buffer'[i] = sector_buffer[i]
  <2>1. k \in 1 .. Words /\ \A i \in 1 .. Len(part) : i \in 1 .. Words /\ i # k
    BY <1>2, IdeConstants
  <2> HIDE DEF k
  <2> QED
    BY <1>3, <1>4, <2>1 DEF SectorSet
<1>7. DiskTypes'
  <2>1. k \in 0 .. Words - 1
    BY <1>2, IdeConstants
  <2> HIDE DEF k
  <2> QED
    BY <1>3, <1>5, <1>6, <2>1 DEF DiskInv, DiskTypes
<1>8. TurnInv'
  BY <1>1, <1>3, <1>5, TransferAt DEF DiskInv, TurnInv, Served, OfSectors
<1>9. ASSUME Tame PROVE BufferInv'
  <2> SUFFICES ASSUME OfSectors, ~void PROVE BufferInv'
    BY <1>3 DEF BufferInv, OfSectors
  <2>1. BufferInv /\ Served
    BY <1>1, <1>9, TransferAt DEF DiskInv, PlaceInv
  <2>2. ASSUME NEW i \in 1 .. k
        PROVE  /\ part'[i] = sector_buffer'[i]
               /\ request.cmd = "write" =>
                    sector_buffer'[i] = Source(Len(moved))[i]
    <3>1. CASE i = k
      <4>1. request.cmd = "write" => Word = Source(Len(moved))[k]
        BY DEF Word
      <4>2. request.cmd # "write" => Word = sector_buffer[k]
        BY <1>2 DEF Word
      <4> HIDE DEF k
      <4> QED
        BY <1>3, <1>5, <1>6, <3>1, <4>1, <4>2
    <3>2. CASE i # k
      <4>1. i \in 1 .. Len(part)
        BY <1>2, <3>2
      <4>2. /\ part[i] = sector_buffer[i]
            /\ request.cmd = "write" => sector_buffer[i] = Source(Len(moved))[i]
        BY <2>1, <4>1 DEF BufferInv
      <4> QED
        BY <1>5, <1>6, <4>1, <4>2
    <3> QED
      BY <3>1, <3>2
  <2> HIDE DEF k
  <2> QED
    BY <1>3, <1>5, <2>1, <2>2 DEF BufferInv, Addressed, Place
<1>10. UNCHANGED Disk!vars
  BY <1>3 DEF Disk!vars
<1> QED
  BY <1>3, <1>7, <1>8, <1>9, <1>10
     DEF DiskInv, PlaceInv, IssueInv, GoodStep, SizesKept

(* The end of an identification.                                           *)
LEMMA IdentifyKeeps ==
  ASSUME DiskInv, Transfer, Len(part) + 1 = Words, ~OfSectors
  PROVE  DiskInv' /\ GoodStep
<1>1. guest = "transfer"
  BY DEF Transfer
<1>2. /\ request.cmd = "identify" /\ current_command = "identify"
      /\ (buffer_index + 1) % Words = 0
  BY <1>1, TransferAt DEF OfSectors
<1>3. /\ buffer_index' = 0 /\ part' = <<>> /\ guest' = "poll"
      /\ moved' = moved /\ status' = "ready"
      /\ UNCHANGED <<images, disk_image, device, low, mid, count,
                     sector_buffer, sectors_remaining,
                     current_command, request, outcome, void, requests,
                     exchanges>>
  BY <1>2 DEF Transfer, ReadData, regs
<1>4. <<>> \in Seq(WordSet) /\ 0 \in 0 .. Words - 1
  BY EmptySeq, IdeConstants
<1>5. DiskTypes'
  BY <1>3, <1>4 DEF DiskInv, DiskTypes
<1>6. TurnInv'
  BY <1>1, <1>3 DEF DiskInv, TurnInv, Served, OfSectors
<1>7. PlaceInv'
  BY <1>3 DEF PlaceInv, IssueInv, BufferInv, Served
<1>8. UNCHANGED Disk!vars
  BY <1>3 DEF Disk!vars
<1> QED
  BY <1>3, <1>5, <1>6, <1>7, <1>8 DEF DiskInv, GoodStep, SizesKept

(* On to the next sector: the registers point there.                       *)
LEMMA Advance ==
  ASSUME DiskInv, guest = "transfer", OfSectors, sectors_remaining > 1,
         increment_lba_regs
  PROVE  /\ device' = device /\ count' = count
         /\ low' \in Bytes /\ mid' \in Bytes
         /\ Tame /\ ~void =>
              /\ Linear(device', low', mid') = Linear(device, low, mid) + 1
              /\ device'.lba
                 \/ (low' # 0 /\ low' + (sectors_remaining - 1) <= Byte)
<1>1. /\ device \in Devices /\ low \in Bytes /\ mid \in Bytes
      /\ Len(moved) \in Nat /\ Byte \in Nat \ {0}
      /\ sectors_remaining \in Nat
  BY TransferAt, IdeConstants DEF DiskInv, DiskTypes
<1>2. /\ device' = device /\ count' = count
      /\ low' = (low + 1) % Byte
      /\ mid' = IF low' = 0 THEN (mid + 1) % Byte ELSE mid
  BY DEF increment_lba_regs
<1>3. low' \in Bytes /\ mid' \in Bytes
  BY <1>1, <1>2 DEF Bytes
<1>4. ASSUME Tame, ~void
      PROVE  /\ Linear(device', low', mid') = Linear(device, low, mid) + 1
             /\ device'.lba
                \/ (low' # 0 /\ low' + (sectors_remaining - 1) <= Byte)
  <2>1. /\ request.start <= LastStart
        /\ Linear(device, low, mid) + 1 = request.start + Len(moved) + 1
        /\ device.lba \/ (low # 0 /\ low + sectors_remaining <= Byte)
    BY <1>4, TransferAt
       DEF DiskInv, PlaceInv, BufferInv, Addressed, Place
  <2>2. /\ request.start \in 0 .. Word32 - 1 /\ request.count \in 1 .. Byte
        /\ sectors_remaining + Len(moved) = request.count
    BY TransferAt, RequestParts DEF DiskInv, TurnInv
  <2>3. Linear(device, low, mid) \in 0 .. Word32 - 1 /\ low \in 0 .. Byte - 1
    BY <1>1, LinearIn DEF Bytes
  <2>4. Linear(device, low, mid) + 1 < LastStart + Byte
    BY <1>1, <2>1, <2>2, <2>3, IdeConstants
  <2>5. device.lba \/ (low # 0 /\ low + 1 < Byte)
    BY <1>1, <2>1, <2>3
  <2>6. /\ Linear(device, low', mid') = Linear(device, low, mid) + 1
        /\ ~device.lba => low' = low + 1
    BY <1>1, <1>2, <1>3, <2>4, <2>5, LinearNext
  <2>7. ~device.lba => low' # 0 /\ low' + (sectors_remaining - 1) <= Byte
    BY <1>1, <2>1, <2>3, <2>6
  <2> QED
    BY <1>2, <2>6, <2>7
<1> QED
  BY <1>2, <1>3, <1>4

(* Where a sector that moves lies: on the disk.                            *)
LEMMA PlaceIs ==
  ASSUME DiskInv, guest = "transfer", OfSectors, Tame, ~void
  PROVE  /\ disk_image \in Sizes /\ Len(images[disk_image]) \in Nat
         /\ Linear(device, low, mid) + 1 = Place
         /\ Place \in 1 .. Len(images[disk_image])
         /\ Len(moved) < request.count
         /\ sectors_remaining > 1 => Place + 1 <= Len(images[disk_image])
<1>1. /\ disk_image # 0
      /\ request.start + request.count <= Len(images[disk_image])
      /\ Linear(device, low, mid) + 1 = Place
  BY TransferAt DEF DiskInv, PlaceInv, BufferInv
<1>2. /\ sectors_remaining + Len(moved) = request.count
      /\ sectors_remaining \in 1 .. Byte /\ Len(moved) \in Nat
      /\ request.start \in 0 .. Word32 - 1 /\ request.count \in 1 .. Byte
  BY TransferAt, RequestParts DEF DiskInv, TurnInv
<1>3. disk_image \in Sizes /\ Len(images[disk_image]) \in Nat
  BY <1>1 DEF DiskInv, DiskTypes, ImagesAre
<1>4. request.start \in Nat /\ sectors_remaining \in Nat
  BY <1>2, IdeConstants
<1>5. Place \in Nat /\ Place >= 1
      /\ Place + sectors_remaining = request.start + request.count + 1
  BY <1>2, <1>4 DEF Place
<1>6. Len(moved) < request.count
  BY <1>2
<1>7. Place <= Len(images[disk_image])
      /\ (sectors_remaining > 1 => Place + 1 <= Len(images[disk_image]))
  BY <1>1, <1>2, <1>3, <1>4, <1>5
<1> QED
  BY <1>1, <1>3, <1>5, <1>6, <1>7

(* The end of a sector that is read: the next one is fetched.              *)
LEMMA ReadSectorKeeps ==
  ASSUME DiskInv, Transfer, Len(part) + 1 = Words, request.cmd = "read"
  PROVE  DiskInv' /\ GoodStep
<1> DEFINE sector == Append(part, Word)
<1>1. guest = "transfer" /\ OfSectors /\ current_command = "read"
      /\ (buffer_index + 1) % Words = 0
  BY TransferAt DEF Transfer, OfSectors
<1>2. /\ buffer_index' = 0 /\ part' = <<>> /\ guest' = "poll"
      /\ moved' = Append(moved, sector) /\ sectors_remaining' = Less
      /\ UNCHANGED <<disk_image, current_command, request, outcome, void,
                     requests, exchanges>>
  BY <1>1 DEF Transfer, ReadData, Word
<1>3. \/ /\ Less = 0 /\ status' = "ready"
         /\ UNCHANGED <<images, sector_buffer, device, low, mid, count>>
      \/ /\ Less # 0 /\ increment_lba_regs
         /\ \E ok \in BOOLEAN :
              /\ load_sector_from_disk(Linear(device', low', mid'), ok)
              /\ status' = IF ok THEN "drq" ELSE "error"
  BY <1>1 DEF Transfer, ReadData, regs
<1>4. /\ sectors_remaining \in 1 .. Byte /\ Less = sectors_remaining - 1
      /\ Len(moved) \in Nat /\ Byte \in Nat
      /\ request.count \in 1 .. Byte
      /\ sectors_remaining + Len(moved) = request.count
  <2>1. sectors_remaining \in 1 .. Byte /\ Len(moved) \in Nat
        /\ request.count \in 1 .. Byte
        /\ sectors_remaining + Len(moved) = request.count
    BY <1>1, TransferAt, RequestParts DEF DiskInv, TurnInv
  <2> QED
    BY <2>1, IdeConstants DEF Less
<1>5. /\ sector \in SectorSet /\ moved' \in Seq(SectorSet)
      /\ Len(moved') = Len(moved) + 1
  <2>1. sector \in SectorSet
    BY <1>1, WordIs, WholeSector DEF DiskInv, DiskTypes
  <2> HIDE DEF sector
  <2> QED
    BY <1>2, <2>1, AppendProperties DEF DiskInv, DiskTypes
<1>6. Tame /\ ~void => sector = images[disk_image][Place]
  <2> SUFFICES ASSUME Tame, ~void PROVE sector = images[disk_image][Place]
    OBVIOUS
  <2>1. /\ sector_buffer = images[disk_image][Place]
        /\ \A i \in 1 .. Len(part) : part[i] = sector_buffer[i]
    BY <1>1, TransferAt DEF DiskInv, PlaceInv, BufferInv
  <2>2. Word = sector_buffer[Words]
    BY <1>1, TransferAt DEF Word
  <2>3. sector = sector_buffer
    BY <1>1, <2>1, <2>2, WordIs, WholeSector DEF DiskInv, DiskTypes
  <2> QED
    BY <2>1, <2>3
<1> HIDE DEF sector
(* What the registers, the buffer and the image are now.                   *)
<1>7. /\ ImagesAre(images') /\ sector_buffer' \in SectorSet
      /\ device' \in Devices /\ low' \in Bytes /\ mid' \in Bytes
      /\ count' \in Bytes /\ status' \in {"ready", "drq", "error"}
      /\ status' = "drq" => sectors_remaining > 1
      /\ Tame /\ ~void => images' = images
      /\ Tame /\ ~void /\ status' = "drq" =>
           /\ Linear(device', low', mid') = Linear(device, low, mid) + 1
           /\ device'.lba
              \/ (low' # 0 /\ low' + (sectors_remaining - 1) <= Byte)
           /\ sector_buffer' = images[disk_image][Place + 1]
  <2>1. CASE /\ Less = 0 /\ status' = "ready"
             /\ UNCHANGED <<images, sector_buffer, device, low, mid, count>>
    BY <2>1 DEF DiskInv, DiskTypes
  <2>2. ASSUME Less # 0, increment_lba_regs, NEW ok \in BOOLEAN,
               load_sector_from_disk(Linear(device', low', mid'), ok),
               status' = IF ok THEN "drq" ELSE "error"
        PROVE  <1>7!:
    <3>1. sectors_remaining > 1
      BY <1>4, <2>2
    <3>2. /\ device' = device /\ count' = count
          /\ low' \in Bytes /\ mid' \in Bytes
          /\ Tame /\ ~void =>
               /\ Linear(device', low', mid') = Linear(device, low, mid) + 1
               /\ device'.lba
                  \/ (low' # 0 /\ low' + (sectors_remaining - 1) <= Byte)
      BY <1>1, <2>2, <3>1, Advance
    <3>3. device \in Devices /\ count \in Bytes
      BY DEF DiskInv, DiskTypes
    <3> DEFINE lba == Linear(device', low', mid')
    <3>4. lba \in 0 .. Word32 - 1
      BY <3>2, <3>3, LinearIn
    <3> HIDE DEF lba
    <3>5. /\ ImagesAre(images') /\ sector_buffer' \in SectorSet
          /\ disk_image # 0 /\ lba < Len(images[disk_image]) =>
               /\ images' = images
               /\ ok => sector_buffer' = images[disk_image][lba + 1]
      BY <2>2, <3>4, LoadDoes DEF DiskInv, lba
    <3>6. Tame /\ ~void => /\ disk_image # 0 /\ lba + 1 = Place + 1
                           /\ lba < Len(images[disk_image])
      <4> SUFFICES ASSUME Tame, ~void
                   PROVE  /\ disk_image # 0 /\ lba + 1 = Place + 1
                          /\ lba < Len(images[disk_image])
        OBVIOUS
      <4>1. /\ disk_image \in Sizes /\ Len(images[disk_image]) \in Nat
            /\ Linear(device, low, mid) + 1 = Place
            /\ Place + 1 <= Len(images[disk_image])
            /\ Place \in 1 .. Len(images[disk_image])
        BY <1>1, <3>1, PlaceIs
      <4>2. lba = Place
        BY <3>2, <4>1 DEF lba
      <4> QED
        BY <4>1, <4>2, IdeConstants
    <3> QED
      BY <2>2, <3>1, <3>2, <3>3, <3>5, <3>6
  <2> QED
    BY <1>3, <2>1, <2>2
<1>8. <<>> \in Seq(WordSet) /\ Len(<<>>) = 0 /\ 0 \in 0 .. Words - 1
      /\ sectors_remaining' = sectors_remaining - 1
      /\ sectors_remaining' \in 0 .. Byte
  BY <1>2, <1>4, EmptySeq, IdeConstants
<1>9. DiskTypes'
  BY <1>2, <1>5, <1>7, <1>8 DEF DiskInv, DiskTypes
<1>10. TurnInv'
  BY <1>1, <1>2, <1>4, <1>5, <1>7, <1>8
     DEF DiskInv, TurnInv, Served, OfSectors
<1>11. ASSUME Tame PROVE BufferInv'
  <2> SUFFICES ASSUME status' = "drq", ~void PROVE BufferInv'
    BY <1>2 DEF BufferInv, Served
  <2>1. /\ disk_image # 0 /\ request.start <= LastStart
        /\ request.start + request.count <= Len(images[disk_image])
    BY <1>1, <1>11, TransferAt DEF DiskInv, PlaceInv, BufferInv
  <2>2. Linear(device, low, mid) + 1 = Place
    BY <1>1, <1>11, PlaceIs
  <2>3. Place' = Place + 1
    <3>1. request.start \in 0 .. Word32 - 1
      BY <1>1, TransferAt, RequestParts
    <3>2. request' = request /\ request.start \in Int
      BY <1>2, <3>1
    <3>3. Len(moved') = Len(moved) + 1 /\ Len(moved) \in Nat
      BY <1>4, <1>5
    <3> QED
      BY <3>2, <3>3 DEF Place
  <2> QED
    BY <1>1, <1>2, <1>7, <1>8, <1>11, <2>1, <2>2, <2>3
       DEF BufferInv, Addressed, OfSectors
<1>12. PlaceInv'
  BY <1>2, <1>11 DEF PlaceInv, IssueInv
<1>13. ASSUME Tame PROVE Disk!Next
  <2>1. CASE void
    BY <1>2, <2>1 DEF Disk!Next, Disk!Voided
  <2>2. CASE ~void
    <3>1. Disk!Place = Place
      BY DEF Disk!Place, Place
    <3>2. /\ disk_image \in Sizes /\ Place \in 1 .. Len(images[disk_image])
          /\ Len(moved) < request.count /\ request # NoRequest
          /\ images[disk_image] \in Seq(SectorSet)
      BY <1>1, <1>13, <2>2, PlaceIs, TransferAt
         DEF DiskInv, DiskTypes, ImagesAre
    <3>3. disk_image # 0 /\ Place \in DOMAIN images[disk_image]
      BY <3>2, IdeConstants, LenProperties
    <3>4. Disk!Moves("read")
      BY <3>1, <3>2, <3>3 DEF Disk!Moves
    <3>5. Disk!Read
      BY <1>2, <1>6, <1>7, <1>13, <2>2, <3>1, <3>3, <3>4 DEF Disk!Read
    <3> QED
      BY <3>5 DEF Disk!Next
  <2> QED
    BY <2>1, <2>2
<1> QED
  BY <1>7, <1>9, <1>10, <1>12, <1>13 DEF DiskInv, GoodStep, SizesKept

(* The end of a sector that is written: it goes to the card.               *)
LEMMA WriteSectorKeeps ==
  ASSUME DiskInv, Transfer, Len(part) + 1 = Words, request.cmd = "write"
  PROVE  DiskInv' /\ GoodStep
<1> DEFINE sector == Append(part, Word)
<1>1. guest = "transfer" /\ OfSectors /\ current_command = "write"
      /\ (buffer_index + 1) % Words = 0 /\ buffer_index + 1 = Words
  BY TransferAt DEF Transfer, OfSectors
<1>2. /\ buffer_index' = 0 /\ part' = <<>> /\ guest' = "poll"
      /\ moved' = IF status' # "error" THEN Append(moved, sector) ELSE moved
      /\ sector_buffer' = [sector_buffer EXCEPT ![Words] = Word]
      /\ UNCHANGED <<disk_image, current_command, request, outcome, void,
                     requests, exchanges>>
  BY <1>1 DEF Transfer, WriteData, Word
<1>3. PICK ok \in BOOLEAN :
        /\ write_sector_to_disk(ide_get_lba, sector_buffer', ok)
        /\ \/ /\ ~ok /\ status' = "error"
              /\ UNCHANGED <<sectors_remaining, device, low, mid, count>>
           \/ /\ ok /\ sectors_remaining' = Less
              /\ \/ Less = 0 /\ status' = "ready"
                    /\ UNCHANGED <<device, low, mid, count>>
                 \/ Less # 0 /\ status' = "drq" /\ increment_lba_regs
  BY <1>1 DEF Transfer, WriteData, regs
<1>4. /\ sectors_remaining \in 1 .. Byte /\ Less = sectors_remaining - 1
      /\ Len(moved) \in Nat /\ Byte \in Nat
      /\ request.count \in 1 .. Byte
      /\ sectors_remaining + Len(moved) = request.count
  <2>1. sectors_remaining \in 1 .. Byte /\ Len(moved) \in Nat
        /\ request.count \in 1 .. Byte
        /\ sectors_remaining + Len(moved) = request.count
    BY <1>1, TransferAt, RequestParts DEF DiskInv, TurnInv
  <2> QED
    BY <2>1, IdeConstants DEF Less
<1>5. /\ sector \in SectorSet /\ Append(moved, sector) \in Seq(SectorSet)
      /\ Len(Append(moved, sector)) = Len(moved) + 1
      /\ moved \in Seq(SectorSet) /\ moved' \in Seq(SectorSet)
  <2>1. sector \in SectorSet
    BY <1>1, WordIs, WholeSector DEF DiskInv, DiskTypes
  <2> HIDE DEF sector
  <2> QED
    BY <1>2, <2>1, AppendProperties DEF DiskInv, DiskTypes
<1>6. sector_buffer' \in SectorSet
  <2>1. Words \in 1 .. Words
    BY IdeConstants
  <2> QED
    BY <1>1, <1>2, <2>1, WordIs DEF SectorSet
<1>7. Tame /\ ~void => /\ sector = Source(Len(moved))
                       /\ sector_buffer' = Source(Len(moved))
  <2> SUFFICES ASSUME Tame, ~void
               PROVE  /\ sector = Source(Len(moved))
                      /\ sector_buffer' = Source(Len(moved))
    OBVIOUS
  <2> DEFINE source == Source(Len(moved))
  <2>1. \A i \in 1 .. Len(part) : /\ part[i] = sector_buffer[i]
                                  /\ sector_buffer[i] = source[i]
    BY <1>1, TransferAt DEF DiskInv, PlaceInv, BufferInv
  <2>2. Word = source[Words]
    BY DEF Word
  <2>3. source \in SectorSet /\ sector_buffer \in SectorSet
    BY <1>1, WordIs
  <2> HIDE DEF source
  <2>4. sector = source
    BY <1>1, <2>1, <2>2, <2>3, WordIs, WholeSector DEF DiskInv, DiskTypes
  <2>5. sector_buffer' = source
    <3>1. \A i \in 1 .. Words : i = Words \/ i \in 1 .. Len(part)
      BY <1>1, TransferAt
    <3>2. \A i \in 1 .. Words : sector_buffer'[i] = source[i]
      BY <1>2, <2>1, <2>2, <2>3, <3>1 DEF SectorSet
    <3> QED
      BY <1>6, <2>3, <3>2 DEF SectorSet
  <2> QED
    BY <2>4, <2>5 DEF source
<1> HIDE DEF sector
(* What the registers are now, and what has become of the image.           *)
<1>8. /\ device' \in Devices /\ low' \in Bytes /\ mid' \in Bytes
      /\ count' \in Bytes /\ status' \in {"ready", "drq", "error"}
      /\ sectors_remaining' \in 0 .. Byte
      /\ status' # "error" => ok
      /\ status' = "drq" =>
           /\ sectors_remaining > 1
           /\ sectors_remaining' = sectors_remaining - 1
           /\ Tame /\ ~void =>
                /\ Linear(device', low', mid') = Linear(device, low, mid) + 1
                /\ device'.lba
                   \/ (low' # 0 /\ low' + sectors_remaining' <= Byte)
  <2>1. CASE /\ status' \in {"ready", "error"}
             /\ sectors_remaining' \in 0 .. Byte
             /\ status' # "error" => ok
             /\ UNCHANGED <<device, low, mid, count>>
    BY <2>1 DEF DiskInv, DiskTypes
  <2>2. CASE /\ ok /\ sectors_remaining' = Less /\ Less # 0
             /\ status' = "drq" /\ increment_lba_regs
    <3>1. sectors_remaining > 1 /\ sectors_remaining' \in 0 .. Byte
          /\ sectors_remaining' = sectors_remaining - 1
      BY <1>4, <2>2
    <3>2. device \in Devices /\ count \in Bytes
      BY DEF DiskInv, DiskTypes
    <3> QED
      BY <1>1, <2>2, <3>1, <3>2, Advance
  <2>3. Less \in 0 .. Byte
    BY <1>4
  <2> QED
    BY <1>3, <1>4, <2>1, <2>2, <2>3
<1>9. ide_get_lba \in 0 .. Word32 - 1
  BY LinearIn DEF DiskInv, DiskTypes, ide_get_lba
<1>10. /\ ImagesAre(images')
       /\ \/ ~ok /\ images' = images
          \/ /\ disk_image # 0
             /\ ide_get_lba < Len(images[disk_image]) =>
                  /\ images'[disk_image] =
                       [images[disk_image] EXCEPT
                          ![ide_get_lba + 1] = sector_buffer']
                  /\ \A i \in Sizes : Len(images'[i]) = Len(images[i])
  BY <1>3, <1>6, <1>9, StoreDoes DEF DiskInv
<1>11. Tame /\ ~void =>
         \/ ~ok /\ images' = images
         \/ /\ images'[disk_image] =
                 [images[disk_image] EXCEPT ![Place] = Source(Len(moved))]
            /\ \A i \in Sizes : Len(images'[i]) = Len(images[i])
  <2> SUFFICES ASSUME Tame, ~void, ~(~ok /\ images' = images)
               PROVE  /\ images'[disk_image] =
                           [images[disk_image] EXCEPT
                              ![Place] = Source(Len(moved))]
                      /\ \A i \in Sizes : Len(images'[i]) = Len(images[i])
    OBVIOUS
  <2>1. /\ ide_get_lba + 1 = Place /\ Place \in 1 .. Len(images[disk_image])
        /\ Len(images[disk_image]) \in Nat
    BY <1>1, PlaceIs DEF ide_get_lba
  <2> HIDE DEF ide_get_lba
  <2>2. ide_get_lba < Len(images[disk_image])
    BY <1>9, <2>1, IdeConstants
  <2> QED
    BY <1>7, <1>10, <2>1, <2>2
<1>12. <<>> \in Seq(WordSet) /\ Len(<<>>) = 0 /\ 0 \in 0 .. Words - 1
  BY EmptySeq, IdeConstants
<1>13. DiskTypes'
  BY <1>2, <1>5, <1>6, <1>8, <1>10, <1>12 DEF DiskInv, DiskTypes
<1>14. TurnInv'
  <2>1. /\ guest' = "poll" /\ request' = request /\ part' = <<>>
        /\ current_command' = request'.cmd /\ request'.cmd = "write"
        /\ buffer_index' = Len(part') /\ request # NoRequest
    BY <1>1, <1>2, <1>12, TransferAt
  <2>2. Len(moved') <= request.count
    BY <1>2, <1>4, <1>5
  <2>3. status' = "drq" => /\ sectors_remaining' >= 1
                           /\ sectors_remaining' + Len(moved') = request.count
    <3> SUFFICES ASSUME status' = "drq"
                 PROVE  /\ sectors_remaining' >= 1
                        /\ sectors_remaining' + Len(moved') = request.count
      OBVIOUS
    <3>1. Len(moved') = Len(moved) + 1
      BY <1>2, <1>5
    <3> QED
      BY <1>4, <1>8, <3>1
  <2> QED
    BY <2>1, <2>2, <2>3 DEF TurnInv, Served, OfSectors
<1>15. ASSUME Tame PROVE BufferInv'
  <2> SUFFICES ASSUME status' = "drq", ~void PROVE BufferInv'
    BY <1>2 DEF BufferInv, Served
  <2>1. /\ disk_image # 0 /\ disk_image \in Sizes
        /\ request.start <= LastStart
        /\ request.start + request.count <= Len(images[disk_image])
    BY <1>1, <1>15, TransferAt, PlaceIs DEF DiskInv, PlaceInv, BufferInv
  <2>2. Linear(device, low, mid) + 1 = Place
    BY <1>1, <1>15, PlaceIs
  <2>3. Place' = Place + 1
    <3>1. request.start \in 0 .. Word32 - 1
      BY <1>1, TransferAt, RequestParts
    <3>2. request' = request /\ request.start \in Int
      BY <1>2, <3>1
    <3>3. Len(moved') = Len(moved) + 1 /\ Len(moved) \in Nat
      BY <1>2, <1>4, <1>5
    <3> QED
      BY <3>2, <3>3 DEF Place
  <2>4. Len(images'[disk_image]) = Len(images[disk_image])
    BY <1>11, <1>15, <2>1
  <2> QED
    BY <1>1, <1>2, <1>8, <1>12, <1>15, <2>1, <2>2, <2>3, <2>4
       DEF BufferInv, Addressed, OfSectors
<1>16. PlaceInv'
  BY <1>2, <1>15 DEF PlaceInv, IssueInv
<1>17. ASSUME Tame PROVE [Disk!Next]_(Disk!vars)
  <2>1. CASE void
    BY <1>2, <2>1 DEF Disk!Next, Disk!Voided
  <2>2. CASE ~ok /\ images' = images
    BY <1>2, <1>8, <2>2 DEF Disk!vars
  <2>3. CASE /\ ~void
             /\ images'[disk_image] =
                  [images[disk_image] EXCEPT ![Place] = Source(Len(moved))]
    <3>1. Disk!Place = Place
      BY DEF Disk!Place, Place
    <3>2. /\ disk_image \in Sizes /\ Place \in 1 .. Len(images[disk_image])
          /\ Len(moved) < request.count /\ request # NoRequest
          /\ images[disk_image] \in Seq(SectorSet)
      BY <1>1, <1>17, <2>3, PlaceIs, TransferAt
         DEF DiskInv, DiskTypes, ImagesAre
    <3>3. disk_image # 0 /\ Place \in DOMAIN images[disk_image]
      BY <3>2, IdeConstants, LenProperties
    <3>4. Disk!Moves("write")
      BY <3>1, <3>2, <3>3 DEF Disk!Moves
    <3>5. CASE status' # "error"
      BY <1>2, <1>7, <1>17, <2>3, <3>1, <3>3, <3>4, <3>5
         DEF Disk!Write, Disk!Next
    <3>6. CASE status' = "error"
      BY <1>2, <2>3, <3>1, <3>3, <3>4, <3>6 DEF Disk!Spoil, Disk!Next
    <3> QED
      BY <3>5, <3>6
  <2> QED
    BY <1>11, <1>17, <2>1, <2>2, <2>3
<1>18. Tame => SizesKept
  BY <1>11 DEF SizesKept
<1> QED
  BY <1>13, <1>14, <1>16, <1>17, <1>18 DEF DiskInv, GoodStep

-----------------------------------------------------------------------------
(* Every step of the disk and its driver.                                  *)
LEMMA DiskKeeps ==
  ASSUME DiskInv, [Next]_vars
  PROVE  DiskInv' /\ GoodStep
<1>1. ASSUME NEW cmd \in Commands, NEW d \in Devices, NEW l \in Bytes,
             NEW m \in Bytes, NEW n \in Counts, Start(cmd, d, l, m, n)
      PROVE  DiskInv' /\ GoodStep
  BY <1>1, StartKeeps
<1>2. CASE Transfer
  <2>1. request.cmd \in {"read", "write", "identify"}
    BY <1>2, TransferAt DEF Transfer
  <2> QED
    BY <1>2, <2>1, WordKeeps, IdentifyKeeps, ReadSectorKeeps, WriteSectorKeeps
       DEF OfSectors
<1>3. CASE UNCHANGED vars
  <2>1. DiskInv'
    BY <1>3 DEF vars, regs, drive, driver, DiskInv, DiskTypes, TurnInv,
                PlaceInv, IssueInv, BufferInv, Served, OfSectors, Addressed, Place
  <2>2. UNCHANGED Disk!vars /\ SizesKept
    BY <1>3 DEF vars, driver, Disk!vars, SizesKept
  <2> QED
    BY <2>1, <2>2 DEF GoodStep
<1> QED
  BY <1>1, <1>2, <1>3, IssueKeeps, PollKeeps, RestartKeeps, ExchangeKeeps
     DEF Next

(* The invariant holds throughout.                                         *)
LEMMA DiskInvariance == Spec => []DiskInv
<1>1. DiskInv /\ [Next]_vars => DiskInv'
  BY DiskKeeps
<1> QED
  BY <1>1, DiskStarts, PTL DEF Spec

(* The types it implies are those of the model.                            *)
LEMMA TypeFollows == DiskInv => TypeOK
<1> SUFFICES ASSUME DiskInv PROVE TypeOK
  OBVIOUS
<1>1. /\ DOMAIN images = Sizes /\ DOMAIN sector_buffer = 1 .. Words
      /\ \A i \in Sizes : Len(images[i]) <= Word32
  BY DEF DiskInv, DiskTypes, ImagesAre, SectorSet
<1>2. Len(moved) <= Byte
  <2>1. CASE guest = "idle"
    BY <2>1, EmptySeq, IdeConstants DEF DiskInv, TurnInv
  <2>2. CASE guest # "idle"
    <3>1. Len(moved) <= request.count /\ request \in Requests
      BY <2>2 DEF DiskInv, DiskTypes, TurnInv
    <3>2. request.count \in 1 .. Byte /\ Len(moved) \in Nat
      BY <3>1, RequestParts, LenProperties DEF DiskInv, DiskTypes
    <3> QED
      BY <3>1, <3>2, IdeConstants
  <2> QED
    BY <2>1, <2>2
<1>3. Len(part) <= Words
  <2>1. CASE guest = "transfer"
    BY <2>1, TransferAt, IdeConstants
  <2>2. CASE guest # "transfer"
    BY <2>2, EmptySeq, IdeConstants DEF DiskInv, TurnInv
  <2> QED
    BY <2>1, <2>2
<1> QED
  BY <1>1, <1>2, <1>3 DEF DiskInv, DiskTypes, TypeOK

(* Every register, counter and image keeps its type, whatever addresses    *)
(* the guest asks for and whenever it is restarted or the image exchanged  *)
(* (ide.h).                                                                *)
THEOREM TypeCorrect == Spec => []TypeOK
  BY DiskInvariance, TypeFollows, PTL

(* The mounted image is a disk to begin with.                              *)
LEMMA DiskBegins == Init => Disk!Init
<1> SUFFICES ASSUME Init PROVE Disk!Init
  OBVIOUS
<1>1. disk_image \in Sizes /\ disk_image # 0
  BY IdeConstants DEF Init
<1> QED
  BY <1>1 DEF Init, Disk!Init

(* A guest that asks by LBA, or by CHS within one setting of the sector    *)
(* register, drives a disk: what it reads is what is there, what it writes *)
(* goes where it said, in order and whole, and a request succeeds only     *)
(* when all of it was moved (ide.h 225-408).                               *)
THEOREM DiskIsDisk ==
  ASSUME Addressing \subseteq {"lba", "chs"}
  PROVE  Spec => ImplementsSectorDisk
<1>1. DiskInv /\ [Next]_vars => [Disk!Next]_(Disk!vars)
  BY DiskKeeps DEF GoodStep, Tame
<1> QED
  BY <1>1, DiskBegins, DiskInvariance, PTL
     DEF Spec, ImplementsSectorDisk, Disk!Spec

(* Nor does a request of this guest make an image grow as long as the      *)
(* image is not exchanged under it.  An exchange in the middle of one can: *)
(* the bounds were checked against the image that went, and the sectors    *)
(* still to come (ide.h 352-354) may lie past the end of a shorter one.    *)
THEOREM TameSizesKept ==
  ASSUME Addressing \subseteq {"lba", "chs"}
  PROVE  Spec => [][SizesKept]_vars
<1>1. DiskInv /\ [Next]_vars => [SizesKept]_vars
  BY DiskKeeps DEF GoodStep, Tame
<1> QED
  BY <1>1, DiskInvariance, PTL DEF Spec

(* Where no image is ever exchanged, the check of the bounds does for this *)
(* guest what StaysOnDisk asks of it: no image ever grows (ide.h 232,      *)
(* 263).                                                                   *)
THEOREM TameStaysOnDisk ==
  ASSUME Addressing \subseteq {"lba", "chs"}, MaxExchanges = 0
  PROVE  Spec => StaysOnDisk
<1> DEFINE Settled == ~void /\ exchanges = 0
<1>1. Init => Settled
  BY DEF Init
<1>2. ASSUME Settled, [Next]_vars PROVE Settled'
  <2>1. ~Exchange
    BY <1>2 DEF Exchange
  <2>2. \/ void' = void /\ exchanges' = exchanges
        \/ void' = FALSE /\ exchanges' = exchanges
    BY <1>2, <2>1
       DEF Next, vars, Start, Issue, Poll, Transfer, Restart, EndRequest
  <2> QED
    BY <1>2, <2>2
<1>3. Settled /\ [SizesKept]_vars =>
        [\A i \in Sizes : Len(images'[i]) = Len(images[i])]_vars
  BY DEF SizesKept
<1> HIDE DEF Settled
<1>4. Init /\ [][Next]_vars => []Settled
  BY <1>1, <1>2, PTL
<1> QED
  BY <1>3, <1>4, TameSizesKept, PTL DEF Spec, StaysOnDisk
=============================================================================
