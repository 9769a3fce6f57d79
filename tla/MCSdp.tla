------------------------------- MODULE MCSdp --------------------------------
(* An instance of Sdp: the HID record of a policy with a descriptor that      *)
(* makes the answer longer than 255 octets, and two small records with every *)
(* type of element, of which two share a UUID and one has its attributes out *)
(* of order.                                                                 *)
EXTENDS Sdp, HidRecord

Policy ==
    [service_name |-> <<72, 73>>, service_description |-> <<>>, provider_name |-> << <<80>> >>,
     bluetooth_profile_version |-> 257, device_release_number |-> <<256>>,
     parser_version |-> 273, device_subclass |-> 8, country_code |-> 0,
     virtual_cable |-> TRUE, reconnect_initiate |-> TRUE, remote_wake |-> <<TRUE>>,
     profile_version |-> 257, supervision_timeout |-> 3200, normally_connectable |-> FALSE,
     boot_device |-> FALSE, ssr_host_max_latency |-> 65535, ssr_host_min_timeout |-> 65535]

Descriptor == [i \in 1..160 |-> i]
Wide == BaseUuid \o LE16(HID_SERVICE_CLASS_UUID) \o <<0, 0>>
Serial == LE16(4353)

ThreeRecords ==
    <<[handle |-> HID_SERVICE_RECORD_HANDLE,
       attributes |-> build_hid_service_record(Policy, Descriptor)],
      [handle |-> 2,
       attributes |-> <<attribute(3, signed_integer(-2, 2)), attribute(1, uuid(Serial)),
                        attribute(2, unsigned_integer(300, 8))>>],
      [handle |-> 3,
       attributes |-> <<attribute(1, sequence(<<Nil, uuid(Wide), uuid(Serial)>>)),
                        attribute(2, Container(ALTERNATIVE, <<uuid(LE16(99)), signed_integer(-5, 1)>>)),
                        attribute(7, Raw(URL, <<104, 58>>)), attribute(8, sequence(<<>>))>>]>>

Patterns == {<<LE16(HID_SERVICE_CLASS_UUID)>>, <<LE16(99), Serial>>, <<>>}
FrontIds == << <<0, 258>>, <<518>> >>
BackIds == << <<512, 528>>, <<2, 3>>, <<7>> >>
ProfileId == << <<9>> >>
Query(kind, uuids, handle, ids) == [kind |-> kind, uuids |-> uuids, handle |-> handle, ids |-> ids]
AllQueries ==
    {Query("search attribute", p, 0, BackIds) : p \in Patterns}
        \cup {Query("search attribute", <<LE16(HID_SERVICE_CLASS_UUID)>>, 0, s) : s \in {FrontIds, ProfileId}}
        \cup {Query("attribute", <<>>, h, BackIds) : h \in {HID_SERVICE_RECORD_HANDLE, 9}}
        \cup {Query("search", p, 0, <<>>) : p \in Patterns}

=============================================================================
