---------------------------- MODULE HALProperties ----------------------------
(***************************************************************************)
(* What the audio driver says about its objects                            *)
(* (HushPortAudioPlugin/HushPortAudioPlugin.c): five families of switches, *)
(* HasProperty, IsPropertySettable, GetPropertyDataSize, GetPropertyData   *)
(* and SetPropertyData, each written once per kind of object, and the      *)
(* dispatchers Core Audio calls.  They list the same selectors again and   *)
(* again and must agree; nothing in the language makes them.               *)
(*                                                                         *)
(* A selector is its name without kAudio...Property.  Of the data only the *)
(* number of bytes is kept, and the object identifiers, which tie the      *)
(* objects together.  Calls have the driver's own reference, non-null      *)
(* pointers and the qualifier the property asks for.  Nothing here is a    *)
(* state: gBox_Acquired is a parameter.                                    *)
(***************************************************************************)
EXTENDS Integers, Sequences

\* The files the host finds in the driver's bundle, looked up by its identifier: none when it
\* does not find the bundle.  HushPort.xcodeproj (project.pbxproj, Resources phase of the
\* driver) puts no file there.
CONSTANT Resources

\* The object numbers; lists are computed from them by adding an index.
UnknownObject == 0
PlugIn == 1
Box == 2
Device == 3
StreamInput == 4
VolumeInput == 5
MuteInput == 6
DataSourceInput == 7
StreamOutput == 8
VolumeOutput == 9
MuteOutput == 10
DataSourceOutput == 11
PlayThru == 12

Streams == {StreamInput, StreamOutput}
Volumes == {VolumeInput, VolumeOutput}
Mutes == {MuteInput, MuteOutput}
Selectors == {DataSourceInput, DataSourceOutput, PlayThru}
Controls == Volumes \cup Mutes \cup Selectors

\* sizeof: UInt32, Float32, object, class, scope and element; pointers and Float64.
Word == 4
Pointer == 8
ValueRange == 16
CustomInfo == 12
StreamFormat == 40
RangedFormat == 56
ChannelLayout == 12 + 2 * 20
DataSourceItems == 4

Unknown == -1    \* kAudioHardwareUnknownPropertyError
BadObject == -2  \* kAudioHardwareBadObjectError
Unset == -3      \* what the caller left in *outDataSize
Unwritten == -4  \* an element of the caller's buffer that is not written

-----------------------------------------------------------------------------
(* Replies of GetPropertyData with a buffer of n bytes                     *)

Reply(size, objects) == [status |-> "ok", size |-> size, objects |-> objects]
Refused(why) == [status |-> why, size |-> Unset, objects |-> <<>>]

Value(n, size) == IF n < size THEN Refused("badSize") ELSE Reply(size, <<>>)
ObjectValue(n, o) == IF n < Word THEN Refused("badSize") ELSE Reply(Word, <<o>>)

Fitting(n, count) == IF n \div Word < count THEN n \div Word ELSE count

\* A list is cut to the items the buffer has room for, and never fails.
ObjectList(n, first, count) ==
  Reply(Word * Fitting(n, count), [i \in 1 .. Fitting(n, count) |-> first + i - 1])
ItemList(n, size) == Reply(IF n < size THEN 0 ELSE size, <<>>)

Settable(s, no, yes) == CASE s \in no -> "no" [] s \in yes -> "yes" [] OTHER -> "unknown"
Accepts(s, n, sizes) == IF s \notin DOMAIN sizes THEN "unknown"
                        ELSE IF n # sizes[s] THEN "badSize" ELSE "ok"

-----------------------------------------------------------------------------
(* The plug-in                                                             *)

HasPlugInProperty(a) ==
  a.selector \in {"BaseClass", "Class", "Owner", "Manufacturer", "OwnedObjects", "BoxList",
                  "TranslateUIDToBox", "DeviceList", "TranslateUIDToDevice",
                  "ResourceBundle", "CustomPropertyInfoList", "Custom"}

IsPlugInPropertySettable(s) ==
  Settable(s, {"BaseClass", "Class", "Owner", "Manufacturer", "OwnedObjects", "BoxList",
               "TranslateUIDToBox", "DeviceList", "TranslateUIDToDevice",
               "ResourceBundle", "CustomPropertyInfoList"},
              {"Custom"})

GetPlugInPropertyDataSize(s, acquired) ==
  CASE s \in {"BaseClass", "Class", "Owner", "BoxList", "TranslateUIDToBox",
              "TranslateUIDToDevice"} -> Word
    [] s \in {"Manufacturer", "ResourceBundle", "Custom"} -> Pointer
    [] s = "OwnedObjects" -> IF acquired THEN 2 * Word ELSE Word
    [] s = "DeviceList" -> IF acquired THEN Word ELSE 0
    [] s = "CustomPropertyInfoList" -> CustomInfo
    [] OTHER -> Unknown

\* Both identifiers are stored into the first element; the second stays as it was.
PlugInOwnedObjects(n, acquired) ==
  LET count == Fitting(n, IF acquired THEN 2 ELSE 1)
  IN Reply(Word * count, CASE count > 1 -> <<Device, Unwritten>>
                           [] count = 1 -> <<Box>>
                           [] OTHER -> <<>>)

PlugInLists(a, n, acquired) ==
  CASE a.selector = "BoxList" -> ObjectList(n, Box, 1)
    [] a.selector = "TranslateUIDToBox" ->
         ObjectValue(n, IF a.uid = "box" THEN Box ELSE UnknownObject)
    [] a.selector = "DeviceList" -> ObjectList(n, Device, IF acquired THEN 1 ELSE 0)
    [] OTHER -> ObjectValue(n, IF a.uid = "device" THEN Device ELSE UnknownObject)

\* ResourceBundle asks for room for an object and writes a pointer.
GetPlugInPropertyData(a, n, acquired) ==
  CASE a.selector \in {"BaseClass", "Class"} -> Value(n, Word)
    [] a.selector = "Owner" -> ObjectValue(n, UnknownObject)
    [] a.selector \in {"Manufacturer", "Custom"} -> Value(n, Pointer)
    [] a.selector = "OwnedObjects" -> PlugInOwnedObjects(n, acquired)
    [] a.selector \in {"BoxList", "TranslateUIDToBox", "DeviceList",
                       "TranslateUIDToDevice"} -> PlugInLists(a, n, acquired)
    [] a.selector = "ResourceBundle" -> IF n < Word THEN Refused("badSize")
                                                    ELSE Reply(Pointer, <<>>)
    [] a.selector = "CustomPropertyInfoList" -> Value(n, CustomInfo)
    [] OTHER -> Refused("unknown")

SetPlugInPropertyData(s, n) == Accepts(s, n, [Custom |-> Pointer])

-----------------------------------------------------------------------------
(* The box                                                                 *)

HasBoxProperty(a) ==
  a.selector \in {"BaseClass", "Class", "Owner", "Name", "ModelName", "Manufacturer",
                  "OwnedObjects", "Identify", "SerialNumber", "FirmwareVersion", "BoxUID",
                  "TransportType", "HasAudio", "HasVideo", "HasMIDI", "IsProtected",
                  "Acquired", "AcquisitionFailed", "BoxDeviceList"}

IsBoxPropertySettable(s) ==
  Settable(s, {"BaseClass", "Class", "Owner", "ModelName", "Manufacturer", "OwnedObjects",
               "SerialNumber", "FirmwareVersion", "BoxUID", "TransportType", "HasAudio",
               "HasVideo", "HasMIDI", "IsProtected", "AcquisitionFailed", "BoxDeviceList"},
              {"Name", "Identify", "Acquired"})

\* Mutant of GetBoxPropertyDataSize: the device list's size ignores the acquisition.
GetBoxPropertyDataSizeFixed(s, acquired) ==
  CASE s \in {"BaseClass", "Class", "Owner", "Identify", "TransportType", "HasAudio",
              "HasVideo", "HasMIDI", "IsProtected", "Acquired", "AcquisitionFailed",
              "BoxDeviceList"} -> Word
    [] s \in {"Name", "ModelName", "Manufacturer", "SerialNumber", "FirmwareVersion",
              "BoxUID"} -> Pointer
    [] s = "OwnedObjects" -> 0
    [] OTHER -> Unknown

GetBoxPropertyDataSize(s, acquired) ==
  CASE s \in {"BaseClass", "Class", "Owner", "Identify", "TransportType", "HasAudio",
              "HasVideo", "HasMIDI", "IsProtected", "Acquired", "AcquisitionFailed"} -> Word
    [] s \in {"Name", "ModelName", "Manufacturer", "SerialNumber", "FirmwareVersion",
              "BoxUID"} -> Pointer
    [] s = "OwnedObjects" -> 0
    [] s = "BoxDeviceList" -> IF acquired THEN Word ELSE 0
    [] OTHER -> Unknown

\* An acquired box refuses a buffer without room for its device, unlike the other lists.
BoxDeviceList(n, acquired) == IF acquired THEN ObjectValue(n, Device) ELSE Reply(0, <<>>)

\* BoxUID never stores *outDataSize.
GetBoxPropertyData(s, n, acquired) ==
  CASE s \in {"BaseClass", "Class", "Identify", "TransportType", "HasAudio", "HasVideo",
              "HasMIDI", "IsProtected", "Acquired", "AcquisitionFailed"} -> Value(n, Word)
    [] s \in {"Name", "ModelName", "Manufacturer", "SerialNumber",
              "FirmwareVersion"} -> Value(n, Pointer)
    [] s = "Owner" -> ObjectValue(n, PlugIn)
    [] s = "OwnedObjects" -> Reply(0, <<>>)
    [] s = "BoxUID" -> IF n < Pointer THEN Refused("badSize") ELSE Reply(Unset, <<>>)
    [] s = "BoxDeviceList" -> BoxDeviceList(n, acquired)
    [] OTHER -> Refused("unknown")

SetBoxPropertyData(s, n) ==
  Accepts(s, n, [Name |-> Pointer, Identify |-> Word, Acquired |-> Word])

-----------------------------------------------------------------------------
(* The device                                                              *)

HasDeviceProperty(a) ==
  \/ a.selector \in {"BaseClass", "Class", "Owner", "Name", "Manufacturer", "OwnedObjects",
                     "DeviceUID", "ModelUID", "TransportType", "RelatedDevices",
                     "ClockDomain", "DeviceIsAlive", "DeviceIsRunning", "ControlList",
                     "NominalSampleRate", "AvailableNominalSampleRates", "IsHidden",
                     "ZeroTimeStampPeriod", "Icon", "Streams"}
  \/ /\ a.selector \in {"CanBeDefaultDevice", "CanBeDefaultSystemDevice", "Latency",
                        "SafetyOffset", "PreferredChannelsForStereo",
                        "PreferredChannelLayout"}
     /\ a.scope \in {"Input", "Output"}
  \/ a.selector = "ElementName" /\ a.element <= 2

IsDevicePropertySettable(s) ==
  Settable(s, {"BaseClass", "Class", "Owner", "Name", "Manufacturer", "ElementName",
               "OwnedObjects", "DeviceUID", "ModelUID", "TransportType", "RelatedDevices",
               "ClockDomain", "DeviceIsAlive", "DeviceIsRunning", "CanBeDefaultDevice",
               "CanBeDefaultSystemDevice", "Latency", "Streams", "ControlList",
               "SafetyOffset", "AvailableNominalSampleRates", "IsHidden",
               "PreferredChannelsForStereo", "PreferredChannelLayout",
               "ZeroTimeStampPeriod", "Icon"},
              {"NominalSampleRate"})

\* The scopes of a device without input.
OnOutput(scope, size) == IF scope = "Input" THEN 0 ELSE size

GetDevicePropertyDataSize(a) ==
  CASE a.selector \in {"BaseClass", "Class", "Owner", "TransportType", "RelatedDevices",
                       "ClockDomain", "DeviceIsAlive", "DeviceIsRunning",
                       "CanBeDefaultDevice", "CanBeDefaultSystemDevice", "Latency",
                       "SafetyOffset", "IsHidden", "ZeroTimeStampPeriod"} -> Word
    [] a.selector \in {"Name", "Manufacturer", "ElementName", "DeviceUID", "ModelUID",
                       "NominalSampleRate", "Icon"} -> Pointer
    [] a.selector = "OwnedObjects" -> OnOutput(a.scope, 3 * Word)
    [] a.selector = "Streams" -> OnOutput(a.scope, Word)
    [] a.selector \in {"ControlList", "PreferredChannelsForStereo"} -> 2 * Word
    [] a.selector = "AvailableNominalSampleRates" -> ValueRange
    [] a.selector = "PreferredChannelLayout" -> ChannelLayout
    [] OTHER -> Unknown

DeviceDescription(s, n) ==
  CASE s \in {"BaseClass", "Class"} -> Value(n, Word)
    [] s = "Owner" -> ObjectValue(n, PlugIn)
    [] OTHER -> Value(n, Pointer)

\* Mutant of DeviceOwnedObjects: the list starts with the input's objects.
DeviceOwnedObjectsFromInput(scope, n) ==
  ObjectList(n, StreamInput, IF scope = "Input" THEN 0 ELSE 3)

DeviceOwnedObjects(scope, n) ==
  ObjectList(n, StreamOutput, IF scope = "Input" THEN 0 ELSE 3)

DeviceIdentity(s, n) ==
  CASE s \in {"DeviceUID", "ModelUID"} -> Value(n, Pointer)
    [] s = "RelatedDevices" -> ObjectList(n, Device, 1)
    [] OTHER -> Value(n, Word)

DeviceActivity(n) == Value(n, Word)

DeviceStreams(scope, n) == ObjectList(n, StreamOutput, IF scope = "Input" THEN 0 ELSE 1)

DeviceControls(n) == ObjectList(n, VolumeOutput, 2)

DeviceRates(s, n) ==
  CASE s = "SafetyOffset" -> Value(n, Word)
    [] s = "NominalSampleRate" -> Value(n, Pointer)
    [] OTHER -> ItemList(n, ValueRange)

DevicePresentation(s, n) ==
  CASE s \in {"IsHidden", "ZeroTimeStampPeriod"} -> Value(n, Word)
    [] s = "PreferredChannelsForStereo" -> Value(n, 2 * Word)
    [] OTHER -> Value(n, ChannelLayout)

\* The size is checked first; then the bundle and its file must be there.
DeviceIcon(n) ==
  IF n < Pointer THEN Refused("badSize")
  ELSE IF "DeviceIcon.icns" \notin Resources THEN Refused("unspecified")
  ELSE Reply(Pointer, <<>>)

GetDevicePropertyData(a, n) ==
  CASE a.selector \in {"BaseClass", "Class", "Owner", "Name", "Manufacturer",
                       "ElementName"} -> DeviceDescription(a.selector, n)
    [] a.selector = "OwnedObjects" -> DeviceOwnedObjects(a.scope, n)
    [] a.selector \in {"DeviceUID", "ModelUID", "TransportType", "RelatedDevices",
                       "ClockDomain", "DeviceIsAlive"} -> DeviceIdentity(a.selector, n)
    [] a.selector \in {"DeviceIsRunning", "CanBeDefaultDevice", "CanBeDefaultSystemDevice",
                       "Latency"} -> DeviceActivity(n)
    [] a.selector = "Streams" -> DeviceStreams(a.scope, n)
    [] a.selector = "ControlList" -> DeviceControls(n)
    [] a.selector \in {"SafetyOffset", "NominalSampleRate",
                       "AvailableNominalSampleRates"} -> DeviceRates(a.selector, n)
    [] a.selector \in {"IsHidden", "PreferredChannelsForStereo", "PreferredChannelLayout",
                       "ZeroTimeStampPeriod"} -> DevicePresentation(a.selector, n)
    [] a.selector = "Icon" -> DeviceIcon(n)
    [] OTHER -> Refused("unknown")

\* The one rate that is accepted is the rate the device always has (gDevice_SampleRate is
\* 48000 from the start and PerformDeviceConfigurationChange takes nothing else), so a
\* configuration change is never requested.
SetDevicePropertyData(s, n) == Accepts(s, n, [NominalSampleRate |-> Pointer])

-----------------------------------------------------------------------------
(* The streams: one table for both, though only the output is reachable    *)

HasStreamProperty(a) ==
  a.selector \in {"BaseClass", "Class", "Owner", "OwnedObjects", "Name", "IsActive",
                  "Direction", "TerminalType", "StartingChannel", "StreamLatency",
                  "VirtualFormat", "PhysicalFormat", "AvailableVirtualFormats",
                  "AvailablePhysicalFormats"}

IsStreamPropertySettable(s) ==
  Settable(s, {"BaseClass", "Class", "Owner", "OwnedObjects", "Name", "Direction",
               "TerminalType", "StartingChannel", "StreamLatency",
               "AvailableVirtualFormats", "AvailablePhysicalFormats"},
              {"IsActive", "VirtualFormat", "PhysicalFormat"})

GetStreamPropertyDataSize(s) ==
  CASE s \in {"BaseClass", "Class", "Owner", "IsActive", "Direction", "TerminalType",
              "StartingChannel", "StreamLatency"} -> Word
    [] s = "OwnedObjects" -> 0
    [] s = "Name" -> Pointer
    [] s \in {"VirtualFormat", "PhysicalFormat"} -> StreamFormat
    [] s \in {"AvailableVirtualFormats", "AvailablePhysicalFormats"} -> RangedFormat
    [] OTHER -> Unknown

GetStreamPropertyData(s, n) ==
  CASE s \in {"BaseClass", "Class", "IsActive", "Direction", "TerminalType",
              "StartingChannel", "StreamLatency"} -> Value(n, Word)
    [] s = "Owner" -> ObjectValue(n, Device)
    [] s = "OwnedObjects" -> Reply(0, <<>>)
    [] s = "Name" -> Value(n, Pointer)
    [] s \in {"VirtualFormat", "PhysicalFormat"} -> Value(n, StreamFormat)
    [] s \in {"AvailableVirtualFormats", "AvailablePhysicalFormats"} ->
         ItemList(n, RangedFormat)
    [] OTHER -> Refused("unknown")

\* A format of the right size is taken when it is the one the stream already has.
SetStreamPropertyData(s, n) ==
  Accepts(s, n, [IsActive |-> Word, VirtualFormat |-> StreamFormat,
                 PhysicalFormat |-> StreamFormat])

-----------------------------------------------------------------------------
(* The controls: the switch on the object comes first                      *)

ControlCommon == {"BaseClass", "Class", "Owner", "OwnedObjects", "Scope", "Element"}

HasControlProperty(o, a) ==
  \/ o \in Volumes /\ a.selector \in ControlCommon \cup
       {"ScalarValue", "DecibelValue", "DecibelRange", "ConvertScalarToDecibels",
        "ConvertDecibelsToScalar"}
  \/ o \in Mutes /\ a.selector \in ControlCommon \cup {"BooleanValue"}
  \/ o \in Selectors /\ a.selector \in ControlCommon \cup
       {"CurrentItem", "AvailableItems", "ItemName"}

IsControlPropertySettable(o, s) ==
  CASE o \in Volumes -> Settable(s, ControlCommon \cup {"DecibelRange",
                                   "ConvertScalarToDecibels", "ConvertDecibelsToScalar"},
                                 {"ScalarValue", "DecibelValue"})
    [] o \in Mutes -> Settable(s, ControlCommon, {"BooleanValue"})
    [] o \in Selectors -> Settable(s, ControlCommon \cup {"AvailableItems", "ItemName"},
                                   {"CurrentItem"})
    [] OTHER -> "badObject"

GetControlPropertyDataSize(o, s) ==
  CASE o \notin Controls -> BadObject
    [] o \in Controls /\ s = "OwnedObjects" -> 0
    [] o \in Controls /\ s \in ControlCommon \ {"OwnedObjects"} -> Word
    [] o \in Volumes /\ s \in {"ScalarValue", "DecibelValue", "ConvertScalarToDecibels",
                               "ConvertDecibelsToScalar"} -> Word
    [] o \in Volumes /\ s = "DecibelRange" -> ValueRange
    [] o \in Mutes /\ s = "BooleanValue" -> Word
    [] o \in Selectors /\ s = "CurrentItem" -> Word
    [] o \in Selectors /\ s = "AvailableItems" -> DataSourceItems * Word
    [] o \in Selectors /\ s = "ItemName" -> Pointer
    [] OTHER -> Unknown

\* Common to the three kinds of control.
ControlData(s, n) ==
  CASE s = "Owner" -> ObjectValue(n, Device)
    [] s = "OwnedObjects" -> Reply(0, <<>>)
    [] OTHER -> Value(n, Word)

VolumeData(s, n) ==
  CASE s \in ControlCommon -> ControlData(s, n)
    [] s \in {"ScalarValue", "DecibelValue", "ConvertScalarToDecibels",
              "ConvertDecibelsToScalar"} -> Value(n, Word)
    [] s = "DecibelRange" -> Value(n, ValueRange)
    [] OTHER -> Refused("unknown")

MuteData(s, n) ==
  CASE s \in ControlCommon -> ControlData(s, n)
    [] s = "BooleanValue" -> Value(n, Word)
    [] OTHER -> Refused("unknown")

\* ItemName is asked with one of the items as its qualifier.
DataSourceData(s, n) ==
  CASE s \in ControlCommon -> ControlData(s, n)
    [] s = "CurrentItem" -> Value(n, Word)
    [] s = "AvailableItems" -> Reply(Word * Fitting(n, DataSourceItems), <<>>)
    [] s = "ItemName" -> Value(n, Pointer)
    [] OTHER -> Refused("unknown")

GetControlPropertyData(o, s, n) ==
  CASE o \in Volumes -> VolumeData(s, n)
    [] o \in Mutes -> MuteData(s, n)
    [] o \in Selectors -> DataSourceData(s, n)
    [] OTHER -> Refused("badObject")

SetControlPropertyData(o, s, n) ==
  CASE o \in Volumes -> Accepts(s, n, [ScalarValue |-> Word, DecibelValue |-> Word])
    [] o \in Mutes -> Accepts(s, n, [BooleanValue |-> Word])
    [] o \in Selectors -> Accepts(s, n, [CurrentItem |-> Word])
    [] OTHER -> "badObject"

\* Which scope a control says it is on.
ControlScope(o) ==
  CASE o \in {VolumeInput, MuteInput, DataSourceInput} -> "Input"
    [] o \in {VolumeOutput, MuteOutput, DataSourceOutput} -> "Output"
    [] OTHER -> "PlayThrough"

-----------------------------------------------------------------------------
(* The dispatchers: of the streams and controls only the output's are      *)
(* reachable; the other objects of the enumeration are bad objects         *)

RoutedControls == {VolumeOutput, MuteOutput}
Routed == {PlugIn, Box, Device, StreamOutput} \cup RoutedControls

HasProperty(o, a) ==
  \/ o = PlugIn /\ HasPlugInProperty(a)
  \/ o = Box /\ HasBoxProperty(a)
  \/ o = Device /\ HasDeviceProperty(a)
  \/ o = StreamOutput /\ HasStreamProperty(a)
  \/ o \in RoutedControls /\ HasControlProperty(o, a)

IsPropertySettable(o, a) ==
  CASE o = PlugIn -> IsPlugInPropertySettable(a.selector)
    [] o = Box -> IsBoxPropertySettable(a.selector)
    [] o = Device -> IsDevicePropertySettable(a.selector)
    [] o = StreamOutput -> IsStreamPropertySettable(a.selector)
    [] o \in RoutedControls -> IsControlPropertySettable(o, a.selector)
    [] OTHER -> "badObject"

GetPropertyDataSize(o, a, acquired) ==
  CASE o = PlugIn -> GetPlugInPropertyDataSize(a.selector, acquired)
    [] o = Box -> GetBoxPropertyDataSize(a.selector, acquired)
    [] o = Device -> GetDevicePropertyDataSize(a)
    [] o = StreamOutput -> GetStreamPropertyDataSize(a.selector)
    [] o \in RoutedControls -> GetControlPropertyDataSize(o, a.selector)
    [] OTHER -> BadObject

GetPropertyData(o, a, n, acquired) ==
  CASE o = PlugIn -> GetPlugInPropertyData(a, n, acquired)
    [] o = Box -> GetBoxPropertyData(a.selector, n, acquired)
    [] o = Device -> GetDevicePropertyData(a, n)
    [] o = StreamOutput -> GetStreamPropertyData(a.selector, n)
    [] o \in RoutedControls -> GetControlPropertyData(o, a.selector, n)
    [] OTHER -> Refused("badObject")

SetPropertyData(o, a, n) ==
  CASE o = PlugIn -> SetPlugInPropertyData(a.selector, n)
    [] o = Box -> SetBoxPropertyData(a.selector, n)
    [] o = Device -> SetDevicePropertyData(a.selector, n)
    [] o = StreamOutput -> SetStreamPropertyData(a.selector, n)
    [] o \in RoutedControls -> SetControlPropertyData(o, a.selector, n)
    [] OTHER -> "badObject"

-----------------------------------------------------------------------------
(* Input and output operations                                             *)

\* Of the operations of an IO cycle the device does the write of the mix.
WillDoIOOperation(operation) == operation = "WriteMix"

\* And does it by writing the frames to the shared audio file.
DoIOOperation(stream, operation) ==
  CASE stream # StreamOutput -> "badObject"
    [] operation = "WriteMix" -> "written"
    [] OTHER -> "nothing"

-----------------------------------------------------------------------------
(* What the tables promise                                                 *)

SelectorNames ==
  {"BaseClass", "Class", "Owner", "Manufacturer", "OwnedObjects", "BoxList",
   "TranslateUIDToBox", "DeviceList", "TranslateUIDToDevice", "ResourceBundle",
   "CustomPropertyInfoList", "Custom", "Name", "ModelName", "Identify", "SerialNumber",
   "FirmwareVersion", "BoxUID", "TransportType", "HasAudio", "HasVideo", "HasMIDI",
   "IsProtected", "Acquired", "AcquisitionFailed", "BoxDeviceList", "DeviceUID",
   "ModelUID", "RelatedDevices", "ClockDomain", "DeviceIsAlive", "DeviceIsRunning",
   "ControlList", "NominalSampleRate", "AvailableNominalSampleRates", "IsHidden",
   "ZeroTimeStampPeriod", "Icon", "Streams", "CanBeDefaultDevice",
   "CanBeDefaultSystemDevice", "Latency", "SafetyOffset", "PreferredChannelsForStereo",
   "PreferredChannelLayout", "ElementName", "IsActive", "Direction", "TerminalType",
   "StartingChannel", "StreamLatency", "VirtualFormat", "PhysicalFormat",
   "AvailableVirtualFormats", "AvailablePhysicalFormats", "Scope", "Element",
   "ScalarValue", "DecibelValue", "DecibelRange", "ConvertScalarToDecibels",
   "ConvertDecibelsToScalar", "BooleanValue", "CurrentItem", "AvailableItems", "ItemName",
   "None"}

Addresses ==
  [selector : SelectorNames, scope : {"Global", "Input", "Output"}, element : {0, 3},
   uid : {"other"}]

BufferSizes == {0, 4, 8, 12, 16, 40, 52, 56}

\* A reply that succeeds and fills the buffer it was given.
Fills(reply, n) == reply.status = "ok" /\ reply.size = n

\* What four of the switches say of one address fits together: a property the object has is
\* known to the others, and it can be set, with data of the reported size, exactly when it
\* says so.
Described(has, settable, size, set) ==
  /\ has => settable # "unknown" /\ size >= 0
  /\ settable = "yes" <=> set = "ok"

\* With the fifth: a buffer of the reported size is filled completely.
Consistent(has, settable, size, reply, set) ==
  Described(has, settable, size, set) /\ (has => Fills(reply, size))

\* Where the code departs from that, one property each: BoxUID leaves *outDataSize as it
\* was, ResourceBundle writes eight bytes into a buffer of four, and the device's icon, which
\* it says it has and gives a size for, cannot be read when its file is not in the bundle.
SizeNotReported == {<<Box, "BoxUID">>}
WritesTooMuch == {<<PlugIn, "ResourceBundle">>}
Unreadable == IF "DeviceIcon.icns" \in Resources THEN {} ELSE {<<Device, "Icon">>}

\* What is read into a buffer of the reported size, the two departures included.
AsReported(o, s, size, reply) ==
  CASE <<o, s>> \in SizeNotReported -> reply = Reply(Unset, <<>>)
    [] <<o, s>> \in Unreadable -> reply = Refused("unspecified")
    [] OTHER -> Fills(reply, size)

SwitchesAgree(acquired) ==
  \A o \in Routed, a \in Addresses :
    LET size == GetPropertyDataSize(o, a, acquired)
        reply == GetPropertyData(o, a, size, acquired)
    IN /\ Described(HasProperty(o, a), IsPropertySettable(o, a), size,
                    SetPropertyData(o, a, size))
       /\ HasProperty(o, a) => AsReported(o, a.selector, size, reply)

\* The data sources and destination have the same five switches, though nothing reaches them.
SelectorSwitchesAgree ==
  \A o \in Selectors, a \in Addresses :
    LET size == GetControlPropertyDataSize(o, a.selector)
    IN Consistent(HasControlProperty(o, a), IsControlPropertySettable(o, a.selector), size,
                  GetControlPropertyData(o, a.selector, size),
                  SetControlPropertyData(o, a.selector, size))

\* No selector is known to a switch that the object never says it has.
NothingHidden(acquired) ==
  \A o \in Routed, a \in Addresses :
    \/ \E b \in Addresses : b.selector = a.selector /\ HasProperty(o, b)
    \/ /\ IsPropertySettable(o, a) = "unknown"
       /\ GetPropertyDataSize(o, a, acquired) = Unknown
       /\ GetPropertyData(o, a, RangedFormat, acquired).status = "unknown"

\* A reply is no longer than the caller's buffer, whatever its size.
RepliesFit(acquired) ==
  \A o \in Routed, a \in Addresses, n \in BufferSizes :
    LET reply == GetPropertyData(o, a, n, acquired)
    IN \/ reply.status # "ok" \/ reply.size <= n
       \/ <<o, a.selector>> \in WritesTooMuch

OperationsAgree ==
  \A operation \in {"Thread", "Cycle", "ReadInput", "ProcessOutput", "WriteMix"} :
    WillDoIOOperation(operation) <=> DoIOOperation(StreamOutput, operation) = "written"

TablesFit ==
  [acquired \in BOOLEAN |->
     /\ SwitchesAgree(acquired) /\ NothingHidden(acquired) /\ RepliesFit(acquired)
     /\ SelectorSwitchesAgree /\ OperationsAgree]

Address(selector, scope, uid) ==
  [selector |-> selector, scope |-> scope, element |-> 0, uid |-> uid]

\* The identifiers a host that asks for the size first finds in a list.
Listed(o, selector, scope, acquired) ==
  LET a == Address(selector, scope, "other")
      objects == GetPropertyData(o, a, GetPropertyDataSize(o, a, acquired), acquired).objects
  IN {objects[i] : i \in DOMAIN objects}

Owner(o) == GetPropertyData(o, Address("Owner", "Global", "other"), Word, TRUE).objects[1]

\* The list of the plug-in's objects, when it has two, holds the device and no box.
IncompleteList == {<<PlugIn, TRUE>>}

OwnersListTheirs(acquired) ==
  \A o \in Routed, scope \in {"Global", "Output"} :
    LET owned == Listed(o, "OwnedObjects", scope, acquired)
    IN IF <<o, acquired>> \in IncompleteList
       THEN owned = {Device, Unwritten}
       ELSE owned = {child \in Routed : /\ Owner(child) = o
                                        /\ child = Device => acquired}

DeviceListsAgree ==
  /\ Listed(Device, "OwnedObjects", "Output", TRUE)
       = Listed(Device, "Streams", "Output", TRUE) \cup Listed(Device, "ControlList", "Output", TRUE)
  /\ \A s \in {"OwnedObjects", "Streams"} : Listed(Device, s, "Input", TRUE) = {}
  /\ \A o \in Listed(Device, "ControlList", "Output", TRUE) : ControlScope(o) = "Output"

PlugInAgreesWithBox(acquired) ==
  /\ Listed(PlugIn, "DeviceList", "Global", acquired)
       = Listed(Box, "BoxDeviceList", "Global", acquired)
  /\ \A s \in {"TranslateUIDToBox", "TranslateUIDToDevice"}, uid \in {"box", "device", "other"} :
       LET found == GetPropertyData(PlugIn, Address(s, "Global", uid), Word, acquired).objects[1]
       IN found # UnknownObject =>
            found \in Listed(PlugIn, "BoxList", "Global", TRUE)
                        \cup Listed(PlugIn, "DeviceList", "Global", TRUE)

ObjectsFit ==
  [acquired \in BOOLEAN |->
     OwnersListTheirs(acquired) /\ DeviceListsAgree /\ PlugInAgreesWithBox(acquired)]

=============================================================================
