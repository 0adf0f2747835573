----------------------------- MODULE FwPackage -----------------------------
(***************************************************************************)
(* A firmware package from the tool that writes it to the parser that      *)
(* reads it.  pldm_fwup_pkg_creator.py writes the header with sizes and    *)
(* offsets left at zero and seeks back to fill them in; PackageParser      *)
(* follows the counts and lengths it finds and compares them with the size *)
(* of the header, the checksum and the size of the file.                   *)
(*                                                                         *)
(* A file is a record of its fields; strings, descriptors and images are   *)
(* their lengths.  The checksum of some bytes is those bytes themselves:   *)
(* two headers with one CRC are not distinguished from an equal one.       *)
(***************************************************************************)
EXTENDS Integers, Sequences, SequencesExt

CONSTANTS
    Revisions,  \* PackageHeaderFormatVersion of the metadata, among 1..4
    Devices,    \* sequences of [components, length]: the devices to describe;
                \* length is that of the version string and the descriptors
    ImageSizes  \* sequences of image lengths, one per component

VARIABLES
    stage, \* "writing", a step of the creator per stage, "file", then "parsed"
    meta,  \* the metadata and images the creator was given
    file,  \* the package
    result \* what parsePkgHeader and parse made of it

vars == <<stage, meta, file, result>>

\* Sizes of the fixed parts, in bytes.
HeaderInformation == 36  \* pldm_package_header_information
DeviceIDRecord == 11     \* pldm_firmware_device_id_record
ComponentInformation == 22 \* pldm_component_image_information
Checksum == 4

Metas == {m \in [revision : Revisions, devices : Devices, images : ImageSizes] :
             \A k \in DOMAIN m.devices :
                 m.devices[k].components \subseteq 0 .. Len(m.images) - 1}

Total(s) == FoldLeft(LAMBDA x, y : x + y, 0, s)

\* ApplicableComponents has a bit for each component, in whole bytes.
BitmapBytes(images) == (Len(images) + 7) \div 8

NoFile == [revision |-> 0, headerSize |-> 0, devices |-> <<>>, components |-> <<>>,
           checksum |-> <<>>, payload |-> <<>>]
NoResult == [parsed |-> FALSE, devices |-> <<>>, components |-> <<>>]

Init ==
    /\ stage = "header"
    /\ meta \in Metas
    /\ file = NoFile
    /\ result = NoResult

-----------------------------------------------------------------------------
(* The creator, one function a step.                                       *)

Then(from, to) == stage = from /\ stage' = to /\ UNCHANGED <<meta, result>>

WriteHeaderInfo ==
    /\ Then("header", "devices")
    /\ file' = [file EXCEPT !.revision = meta.revision]

\* Later formats have more fields.
Extra(revision, since, bytes) == IF revision >= since THEN bytes ELSE 0

DeviceRecords ==
    [k \in DOMAIN meta.devices |->
        [components |-> meta.devices[k].components,
         length |-> DeviceIDRecord + BitmapBytes(meta.images)
                    + Extra(meta.revision, 4, 4) + meta.devices[k].length]]

WriteDeviceIdentificationArea ==
    /\ Then("devices", "components")
    /\ file' = [file EXCEPT !.devices = DeviceRecords]

\* What is written so far: a count and the records of each area, the area of
\* downstream devices being an empty one.
DevicesEnd(f) == HeaderInformation + 1 + Total([k \in DOMAIN f.devices |-> f.devices[k].length])
                    + Extra(f.revision, 2, 1)
HeaderEnd(f) == DevicesEnd(f) + 2
                + Len(f.components) * (ComponentInformation + Extra(f.revision, 3, 4))

\* Mutant for PackagesRead: the images start where the header without its
\* checksum ends.
MutStartOffset(f) == HeaderEnd(f)

StartOffset(f) == HeaderEnd(f) + Checksum + Extra(f.revision, 4, 4)

\* The offset of each image, found after all entries are in place.
ImageEntries(start) ==
    [k \in DOMAIN meta.images |->
        [offset |-> start + Total(SubSeq(meta.images, 1, k - 1)), size |-> meta.images[k]]]

WriteComponentImageInfoArea ==
    /\ Then("components", "size")
    /\ LET entries == [k \in DOMAIN meta.images |-> [offset |-> 0, size |-> 0]]
       IN file' = [file EXCEPT !.components =
                      ImageEntries(StartOffset([file EXCEPT !.components = entries]))]

UpdatePkgHeaderSize ==
    /\ Then("size", "checksum")
    /\ file' = [file EXCEPT !.headerSize =
                   HeaderEnd(file) + Checksum + Extra(file.revision, 4, 4)]

HeaderBytes(f) == <<f.revision, f.headerSize, f.devices, f.components>>

\* The checksum of the header comes after its size is filled in.
WritePkgHeaderChecksum ==
    /\ Then("checksum", "images")
    /\ file' = [file EXCEPT !.checksum = HeaderBytes(file)]

AppendComponentImages ==
    /\ Then("images", "file")
    /\ file' = [file EXCEPT !.payload = meta.images]

FileSize(f) == HeaderEnd(f) + Checksum + Extra(f.revision, 4, 4) + Total(f.payload)

-----------------------------------------------------------------------------
(* On the way: a truncated file, or one field with another value.          *)

Truncated ==
    /\ stage = "file" /\ file.payload # <<>> /\ file.payload = meta.images
    /\ file' = [file EXCEPT !.payload = Front(@)]
    /\ UNCHANGED <<stage, meta, result>>

\* Nothing is changed twice.
Damaged ==
    /\ stage = "file" /\ file.checksum = HeaderBytes(file)
    /\ \/ \E d \in {-1, 1} : file' = [file EXCEPT !.headerSize = @ + d]
       \/ \E k \in DOMAIN file.components, d \in {-1, 1} :
             \/ file' = [file EXCEPT !.components[k].offset = @ + d]
             \/ file' = [file EXCEPT !.components[k].size = @ + d]
       \/ \E k \in DOMAIN file.devices :
             file' = [file EXCEPT !.devices[k].components = {}]
    /\ UNCHANGED <<stage, meta, result>>

-----------------------------------------------------------------------------
(* The parser.                                                             *)

\* parseFDIdentificationArea, parseCompImageInfoArea and the comparisons that
\* follow them: the areas must end a checksum before the header does.
AreasEnd(f) == /\ f.headerSize < FileSize(f)
               /\ HeaderEnd(f) + Checksum = f.headerSize

\* Each image starts where the one before it ends, and the last ends the file.
TotalSizeValid(f) ==
    LET End(k) == f.headerSize + Total([j \in 1 .. k |-> f.components[j].size])
    IN /\ \A k \in DOMAIN f.components : f.components[k].offset = End(k - 1)
       /\ End(Len(f.components)) = FileSize(f)

\* Only the first format is known to parsePkgHeader.
Accepts(f) == /\ f.revision = 1
              /\ AreasEnd(f)
              /\ f.checksum = HeaderBytes(f)
              /\ TotalSizeValid(f)

\* The decoders of libpldm may refuse a device described by nothing and an image
\* of no bytes; every record lies in the file, as a cut header is refused first.
MayNotDecode(f) ==
    \/ \E k \in DOMAIN f.devices :
          f.devices[k].length <= DeviceIDRecord + BitmapBytes(f.components)
    \/ \E k \in DOMAIN f.components : f.components[k].size = 0

\* A failure throws or yields no parser, and the package is Invalid.
Parse ==
    /\ stage = "file"
    /\ stage' = "parsed"
    /\ \/ /\ Accepts(file)
          /\ result' = [parsed |-> TRUE, devices |-> file.devices,
                        components |-> file.components]
       \/ /\ ~Accepts(file) \/ MayNotDecode(file)
          /\ result' = NoResult
    /\ UNCHANGED <<meta, file>>

Next ==
    \/ WriteHeaderInfo
    \/ WriteDeviceIdentificationArea
    \/ WriteComponentImageInfoArea
    \/ UpdatePkgHeaderSize
    \/ WritePkgHeaderChecksum
    \/ AppendComponentImages
    \/ Truncated
    \/ Damaged
    \/ Parse

Spec == Init /\ [][Next]_vars

-----------------------------------------------------------------------------
Intact == /\ file.payload = meta.images
          /\ file.checksum = HeaderBytes(file)

\* What the tool writes in the first format the parser takes, if there are
\* images, each has a byte and each device is described by something (others the
\* decoders may refuse).  Of what it takes it reads the range of each image and
\* the components of each device that the tool meant; a file cut or changed it
\* refuses, unless all that was cut is an empty image.
PackagesRead ==
    stage = "parsed" =>
        /\ /\ Intact /\ meta.revision = 1 /\ Total(meta.images) > 0
           /\ \A k \in DOMAIN meta.images : meta.images[k] > 0
           /\ \A k \in DOMAIN meta.devices : meta.devices[k].length > 0
           => result.parsed
        /\ result.parsed =>
              /\ Total(file.payload) = Total(meta.images)
              /\ \A k \in DOMAIN meta.images :
                    /\ result.components[k].offset =
                          FileSize(file) - Total(SubSeq(meta.images, k, Len(meta.images)))
                    /\ result.components[k].size = meta.images[k]
              /\ \A k \in DOMAIN meta.devices :
                    result.devices[k].components = meta.devices[k].components

-----------------------------------------------------------------------------
\* Inductive: the header has what is written up to each stage, and its checksum is
\* that of the header the metadata determine, whatever happened to the file since.
Start == HeaderInformation + 1 + Total([k \in DOMAIN DeviceRecords |-> DeviceRecords[k].length])
         + Extra(meta.revision, 2, 1) + 2
         + Len(meta.images) * (ComponentInformation + Extra(meta.revision, 3, 4))
         + Checksum + Extra(meta.revision, 4, 4)

PackageInv ==
    /\ meta \in Metas
    /\ DOMAIN file = {"revision", "headerSize", "devices", "components", "checksum", "payload"}
    /\ stage \in {"header", "devices", "components", "size", "checksum", "images",
                  "file", "parsed"}
    /\ stage \in {"devices", "components", "size", "checksum", "images"} =>
          file.revision = meta.revision
    /\ stage \in {"components", "size", "checksum", "images"} => file.devices = DeviceRecords
    /\ stage \in {"size", "checksum", "images"} => file.components = ImageEntries(Start)
    /\ stage \in {"checksum", "images"} => file.headerSize = Start
    /\ stage \in {"images", "file", "parsed"} =>
          file.checksum = <<meta.revision, Start, DeviceRecords, ImageEntries(Start)>>
    /\ file.payload \in Seq(Nat)
    /\ stage = "parsed" =>
          \/ Accepts(file) /\ result = [parsed |-> TRUE, devices |-> file.devices,
                                       components |-> file.components]
          \/ (~Accepts(file) \/ MayNotDecode(file)) /\ result = NoResult
=============================================================================
