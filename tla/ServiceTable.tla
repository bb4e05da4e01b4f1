---------------------------- MODULE ServiceTable -----------------------------
(***************************************************************************)
(* The graphs of the services dr16 to dr42, one stage each, as records of  *)
(* the same make as the pipelines of GraphTable.                           *)
(***************************************************************************)
EXTENDS GraphTable

(* The services of the quantum key distribution edge run on any host that  *)
(* has the packages.                                                       *)
Dr16Program == Service
Dr16Refuses == PackagesOnly
Dr16 == Row(Dr16Program, Dr16Refuses, {})

Dr17Program == Service
Dr17Refuses == PackagesOnly
Dr17 == Row(Dr17Program, Dr17Refuses, {"status"})

Dr18Program == Service
Dr18Refuses == PackagesOnly
Dr18 == Row(Dr18Program, Dr18Refuses, {})

(* The session kernel gets a request that its own host call has built, and *)
(* has nothing to refuse in it.                                            *)
Dr19Program == <<Blind>>
Dr19Refuses == PackagesOnly
Dr19 == Row(Dr19Program, Dr19Refuses, {})

Dr27Program == Service
Dr27Refuses == PackagesOnly
Dr27 == Row(Dr27Program, Dr27Refuses, {})

(* SLH-DSA and FN-DSA: one stage each, which on an unaligned buffer writes *)
(* its error word where the host does not look.                            *)
Dr21Program == <<MisplacedService>>
Dr21Refuses == DeviceOnly
Dr21Keygen == Row(Dr21Program, Dr21Refuses, {"status"})
Dr21Sign == Row(Dr21Program, Dr21Refuses, {"status"})
Dr21Verify == Row(Dr21Program, Dr21Refuses, {})

Dr22Program == <<MisplacedService>>
Dr22Refuses == DeviceOnly
Dr22Keygen == Row(Dr22Program, Dr22Refuses, {"status"})
Dr22Sign == Row(Dr22Program, Dr22Refuses, {"status"})
Dr22Verify == Row(Dr22Program, Dr22Refuses, {})

(* The later services have one stage and refuse a host without a device;   *)
(* whether a call compares the status depends on the operation.            *)
Dr24Program == Service
Dr24Refuses == DeviceOnly
Dr24Combine == Row(Dr24Program, Dr24Refuses, {"status"})
Dr24Encaps == Row(Dr24Program, Dr24Refuses, {"status"})
Dr24Decaps == Row(Dr24Program, Dr24Refuses, {})
Dr24Rekey == Row(Dr24Program, Dr24Refuses, {"status"})

Dr25Program == Service
Dr25Refuses == DeviceOnly
Dr25Dispatch == {"status"}
Dr25 == Row(Dr25Program, Dr25Refuses, Dr25Dispatch)

Dr26Program == Service
Dr26Refuses == DeviceOnly
Dr26Dispatch == {"status"}
Dr26 == Row(Dr26Program, Dr26Refuses, Dr26Dispatch)

Dr28Program == Service
Dr28Refuses == DeviceOnly
Dr28Dispatch == {}
Dr28 == Row(Dr28Program, Dr28Refuses, Dr28Dispatch)

Dr29Program == Service
Dr29Refuses == DeviceOnly
Dr29Dispatch == {"status"}
Dr29 == Row(Dr29Program, Dr29Refuses, Dr29Dispatch)

Dr30Program == Service
Dr30Refuses == DeviceOnly
Dr30Dispatch == {"status"}
Dr30 == Row(Dr30Program, Dr30Refuses, Dr30Dispatch)

Dr31Program == Service
Dr31Refuses == DeviceOnly
Dr31Dispatch == {"status"}
Dr31 == Row(Dr31Program, Dr31Refuses, Dr31Dispatch)

Dr33Program == Service
Dr33Refuses == DeviceOnly
Dr33Dispatch == {"status"}
Dr33 == Row(Dr33Program, Dr33Refuses, Dr33Dispatch)

Dr34Program == Service
Dr34Refuses == DeviceOnly
Dr34Dispatch == {"status"}
Dr34 == Row(Dr34Program, Dr34Refuses, Dr34Dispatch)
Dr34VerifyQuote == Row(Dr34Program, Dr34Refuses, {})

Dr37Program == Service
Dr37Refuses == DeviceOnly
Dr37Dispatch == {}
Dr37 == Row(Dr37Program, Dr37Refuses, Dr37Dispatch)

Dr38Program == Service
Dr38Refuses == DeviceOnly
Dr38Dispatch == {}
Dr38 == Row(Dr38Program, Dr38Refuses, Dr38Dispatch)

Dr39Program == Service
Dr39Refuses == DeviceOnly
Dr39Dispatch == {}
Dr39 == Row(Dr39Program, Dr39Refuses, Dr39Dispatch)

Dr40Program == Service
Dr40Refuses == DeviceOnly
Dr40Dispatch == {}
Dr40 == Row(Dr40Program, Dr40Refuses, Dr40Dispatch)

Dr41Program == Service
Dr41Refuses == DeviceOnly
Dr41Dispatch == {}
Dr41 == Row(Dr41Program, Dr41Refuses, Dr41Dispatch)

Dr42Program == Service
Dr42Refuses == DeviceOnly
Dr42Dispatch == {}
Dr42 == Row(Dr42Program, Dr42Refuses, Dr42Dispatch)
=============================================================================
