------------------------------ MODULE HidRecord ------------------------------
(***************************************************************************)
(* build_hid_service_record of hid_service.rs: the one record a session     *)
(* serves. A policy is a record of the HidSdpPolicy fields; an optional one *)
(* is a sequence of at most one value.                                      *)
(***************************************************************************)
EXTENDS SdpElements

HID_SERVICE_RECORD_HANDLE == 65537
uuid16(n) == uuid(LE16(n))
L2CAP_PROTOCOL_UUID == 256
HIDP_PROTOCOL_UUID == 17
HID_SERVICE_CLASS_UUID == 4388
PUBLIC_BROWSE_ROOT_UUID == 4098

U8(n) == unsigned_integer(n, 1)
U16(n) == unsigned_integer(n, 2)
Protocols(psm) ==
    sequence(<<sequence(<<uuid16(L2CAP_PROTOCOL_UUID), U16(psm)>>),
               sequence(<<uuid16(HIDP_PROTOCOL_UUID)>>)>>)

\* The attribute of an optional field, if the policy has it.
Optional(id, elements) == [i \in DOMAIN elements |-> attribute(id, elements[i])]
Texts(value) == [i \in 1..Len(value) |-> text_string(value[i])]
U16s(value) == [i \in 1..Len(value) |-> U16(value[i])]
Booleans(value) == [i \in 1..Len(value) |-> boolean(value[i])]

build_hid_service_record(policy, report_descriptor) ==
    <<attribute(0, unsigned_integer(HID_SERVICE_RECORD_HANDLE, 4)),
      attribute(1, sequence(<<uuid16(HID_SERVICE_CLASS_UUID)>>)),
      attribute(4, Protocols(17)),
      attribute(5, sequence(<<uuid16(PUBLIC_BROWSE_ROOT_UUID)>>)),
      attribute(6, sequence(<<U16(25966), U16(106), U16(256)>>)),
      attribute(256, text_string(policy.service_name))>>
    \o Optional(257, Texts(policy.service_description))
    \o Optional(258, Texts(policy.provider_name))
    \o <<attribute(9, sequence(<<sequence(<<uuid16(HID_SERVICE_CLASS_UUID),
                                            U16(policy.bluetooth_profile_version)>>)>>)),
         attribute(13, sequence(<<Protocols(19)>>))>>
    \o Optional(512, U16s(policy.device_release_number))
    \o <<attribute(513, U16(policy.parser_version)),
         attribute(514, U8(policy.device_subclass)),
         attribute(515, U8(policy.country_code)),
         attribute(516, boolean(policy.virtual_cable)),
         attribute(517, boolean(policy.reconnect_initiate)),
         attribute(518, sequence(<<sequence(<<U8(34), text_string(report_descriptor)>>)>>)),
         attribute(519, sequence(<<sequence(<<U16(1033), U16(256)>>)>>))>>
    \o Optional(522, Booleans(policy.remote_wake))
    \o <<attribute(523, U16(policy.profile_version)),
         attribute(524, U16(policy.supervision_timeout)),
         attribute(525, boolean(policy.normally_connectable)),
         attribute(526, boolean(policy.boot_device)),
         attribute(527, U16(policy.ssr_host_max_latency)),
         attribute(528, U16(policy.ssr_host_min_timeout))>>

=============================================================================
