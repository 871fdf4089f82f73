---------------------------- MODULE RadioRequests ----------------------------
(***************************************************************************)
(* What each request method of the radio service sends to the vendor       *)
(* library (libril/ril_service.cpp, struct RadioImpl and OemHookImpl), and *)
(* the two tables the library is driven by: ril_commands.h names for each  *)
(* request the function that answers it, ril_unsol_commands.h for each     *)
(* unsolicited indication the function that reports it and whether the     *)
(* device is kept awake for it.                                            *)
(*                                                                         *)
(* A method appends the request to the list of pending requests, converts  *)
(* the arguments and calls the vendor's onRequest.  A row is               *)
(* <<method, request, errors>>: the errors are the ones the method itself  *)
(* answers with, without calling the vendor: NO_MEMORY where it copies     *)
(* strings or integers to the heap, INVALID_ARGUMENTS where it checks them.*)
(***************************************************************************)
EXTENDS Integers, Sequences, TLC

NO_MEMORY == "NO_MEMORY"
INVALID_ARGUMENTS == "INVALID_ARGUMENTS"
REQUEST_NOT_SUPPORTED == "REQUEST_NOT_SUPPORTED"

\* The errors the dispatch helpers refuse with: what they copy may not fit.
copyHidlStringToRil == {NO_MEMORY}
dispatchVoid == {}
dispatchString == copyHidlStringToRil
dispatchStrings == {NO_MEMORY} \cup copyHidlStringToRil
dispatchInts == {NO_MEMORY}
dispatchCallForwardStatus == copyHidlStringToRil
dispatchRaw == {}
dispatchIccApdu == copyHidlStringToRil

Sends(rows, errors) == {<<row[1], row[2], errors>> : row \in rows}

RequestsSimAndCalls ==
       Sends({ <<"getIccCardStatus", "GET_SIM_STATUS">>,
              <<"getCurrentCalls", "GET_CURRENT_CALLS">> },
             dispatchVoid)
  \cup Sends({ <<"supplyIccPinForApp", "ENTER_SIM_PIN">>,
              <<"supplyIccPukForApp", "ENTER_SIM_PUK">>,
              <<"supplyIccPin2ForApp", "ENTER_SIM_PIN2">>,
              <<"supplyIccPuk2ForApp", "ENTER_SIM_PUK2">>,
              <<"changeIccPinForApp", "CHANGE_SIM_PIN">>,
              <<"changeIccPin2ForApp", "CHANGE_SIM_PIN2">>,
              <<"supplyNetworkDepersonalization", "ENTER_NETWORK_DEPERSONALIZATION">>,
              <<"getImsiForApp", "GET_IMSI">> },
             dispatchStrings)
  \cup Sends({ <<"dial", "DIAL">> },
             copyHidlStringToRil)
  \cup Sends({ <<"hangup", "HANGUP">> },
             dispatchInts)

RequestsCallsAndNetwork ==
       Sends({ <<"hangupWaitingOrBackground", "HANGUP_WAITING_OR_BACKGROUND">>,
              <<"hangupForegroundResumeBackground", "HANGUP_FOREGROUND_RESUME_BACKGROUND">>,
              <<"switchWaitingOrHoldingAndActive", "SWITCH_WAITING_OR_HOLDING_AND_ACTIVE">>,
              <<"conference", "CONFERENCE">>, <<"rejectCall", "UDUB">>,
              <<"getLastCallFailCause", "LAST_CALL_FAIL_CAUSE">>,
              <<"getSignalStrength", "SIGNAL_STRENGTH">>,
              <<"getVoiceRegistrationState", "VOICE_REGISTRATION_STATE">>,
              <<"getDataRegistrationState", "DATA_REGISTRATION_STATE">>,
              <<"getOperator", "OPERATOR">> },
             dispatchVoid)
  \cup Sends({ <<"setRadioPower", "RADIO_POWER">> },
             dispatchInts)
  \cup Sends({ <<"sendDtmf", "DTMF">> },
             dispatchString)
  \cup Sends({ <<"sendSms", "SEND_SMS">>, <<"sendSMSExpectMore", "SEND_SMS_EXPECT_MORE">> },
             dispatchStrings)

RequestsDataAndForwarding ==
       Sends({ <<"setupDataCall", "SETUP_DATA_CALL">> },
             {NO_MEMORY, INVALID_ARGUMENTS})
  \cup Sends({ <<"iccIOForApp", "SIM_IO">> },
             copyHidlStringToRil)
  \cup Sends({ <<"sendUssd", "SEND_USSD">> },
             dispatchString)
  \cup Sends({ <<"cancelPendingUssd", "CANCEL_USSD">>, <<"getClir", "GET_CLIR">> },
             dispatchVoid)
  \cup Sends({ <<"setClir", "SET_CLIR">> },
             dispatchInts)
  \cup Sends({ <<"getCallForwardStatus", "QUERY_CALL_FORWARD_STATUS">>,
              <<"setCallForward", "SET_CALL_FORWARD">> },
             dispatchCallForwardStatus)

RequestsLocksAndNetworks ==
       Sends({ <<"getCallWaiting", "QUERY_CALL_WAITING">>,
              <<"setCallWaiting", "SET_CALL_WAITING">>,
              <<"acknowledgeLastIncomingGsmSms", "SMS_ACKNOWLEDGE">> },
             dispatchInts)
  \cup Sends({ <<"acceptCall", "ANSWER">>,
              <<"getNetworkSelectionMode", "QUERY_NETWORK_SELECTION_MODE">>,
              <<"setNetworkSelectionModeAutomatic", "SET_NETWORK_SELECTION_AUTOMATIC">>,
              <<"getAvailableNetworks", "QUERY_AVAILABLE_NETWORKS">> },
             dispatchVoid)
  \cup Sends({ <<"deactivateDataCall", "DEACTIVATE_DATA_CALL">>,
              <<"getFacilityLockForApp", "QUERY_FACILITY_LOCK">>,
              <<"setFacilityLockForApp", "SET_FACILITY_LOCK">>,
              <<"setBarringPassword", "CHANGE_BARRING_PASSWORD">> },
             dispatchStrings)
  \cup Sends({ <<"setNetworkSelectionModeManual", "SET_NETWORK_SELECTION_MANUAL">> },
             dispatchString)

RequestsScanAndDtmf ==
       Sends({ <<"startNetworkScan", "START_NETWORK_SCAN">> },
             {INVALID_ARGUMENTS})
  \cup Sends({ <<"stopNetworkScan", "STOP_NETWORK_SCAN">>, <<"stopDtmf", "DTMF_STOP">>,
              <<"getBasebandVersion", "BASEBAND_VERSION">>, <<"getMute", "GET_MUTE">>,
              <<"getClip", "QUERY_CLIP">>, <<"getDataCallList", "DATA_CALL_LIST">> },
             dispatchVoid)
  \cup Sends({ <<"startDtmf", "DTMF_START">> },
             dispatchString)
  \cup Sends({ <<"separateConnection", "SEPARATE_CONNECTION">>, <<"setMute", "SET_MUTE">>,
              <<"setSuppServiceNotifications", "SET_SUPP_SVC_NOTIFICATION">> },
             dispatchInts)

RequestsSmsStkAndRadio ==
       Sends({ <<"writeSmsToSim", "WRITE_SMS_TO_SIM">> },
             copyHidlStringToRil)
  \cup Sends({ <<"deleteSmsOnSim", "DELETE_SMS_ON_SIM">>, <<"setBandMode", "SET_BAND_MODE">>,
              <<"handleStkCallSetupRequestFromSim", "STK_HANDLE_CALL_SETUP_REQUESTED_FROM_SIM">>,
              <<"setPreferredNetworkType", "SET_PREFERRED_NETWORK_TYPE">>,
              <<"setLocationUpdates", "SET_LOCATION_UPDATES">>,
              <<"setCdmaSubscriptionSource", "CDMA_SET_SUBSCRIPTION_SOURCE">>,
              <<"setCdmaRoamingPreference", "CDMA_SET_ROAMING_PREFERENCE">> },
             dispatchInts)
  \cup Sends({ <<"getAvailableBandModes", "QUERY_AVAILABLE_BAND_MODE">>,
              <<"explicitCallTransfer", "EXPLICIT_CALL_TRANSFER">>,
              <<"getPreferredNetworkType", "GET_PREFERRED_NETWORK_TYPE">>,
              <<"getNeighboringCids", "GET_NEIGHBORING_CELL_IDS">>,
              <<"getCdmaRoamingPreference", "CDMA_QUERY_ROAMING_PREFERENCE">> },
             dispatchVoid)
  \cup Sends({ <<"sendEnvelope", "STK_SEND_ENVELOPE_COMMAND">>,
              <<"sendTerminalResponseToSim", "STK_SEND_TERMINAL_RESPONSE">> },
             dispatchString)

RequestsCdma ==
       Sends({ <<"setTTYMode", "SET_TTY_MODE">>,
              <<"setPreferredVoicePrivacy", "CDMA_SET_PREFERRED_VOICE_PRIVACY_MODE">> },
             dispatchInts)
  \cup Sends({ <<"getTTYMode", "QUERY_TTY_MODE">>,
              <<"getPreferredVoicePrivacy", "CDMA_QUERY_PREFERRED_VOICE_PRIVACY_MODE">>,
              <<"getGsmBroadcastConfig", "GSM_GET_BROADCAST_SMS_CONFIG">> },
             dispatchVoid)
  \cup Sends({ <<"sendCDMAFeatureCode", "CDMA_FLASH">> },
             dispatchString)
  \cup Sends({ <<"sendBurstDtmf", "CDMA_BURST_DTMF">> },
             dispatchStrings)
  \cup Sends({ <<"sendCdmaSms", "CDMA_SEND_SMS">>,
              <<"acknowledgeLastIncomingCdmaSms", "CDMA_SMS_ACKNOWLEDGE">> },
             {})

RequestsBroadcastSms ==
       Sends({ <<"setGsmBroadcastConfig", "GSM_SET_BROADCAST_SMS_CONFIG">>,
              <<"setCdmaBroadcastConfig", "CDMA_SET_BROADCAST_SMS_CONFIG">>,
              <<"writeSmsToRuim", "CDMA_WRITE_SMS_TO_RUIM">> },
             {})
  \cup Sends({ <<"setGsmBroadcastActivation", "GSM_SMS_BROADCAST_ACTIVATION">>,
              <<"setCdmaBroadcastActivation", "CDMA_SMS_BROADCAST_ACTIVATION">>,
              <<"deleteSmsOnRuim", "CDMA_DELETE_SMS_ON_RUIM">> },
             dispatchInts)
  \cup Sends({ <<"getCdmaBroadcastConfig", "CDMA_GET_BROADCAST_SMS_CONFIG">>,
              <<"getCDMASubscription", "CDMA_SUBSCRIPTION">>,
              <<"getDeviceIdentity", "DEVICE_IDENTITY">>,
              <<"exitEmergencyCallbackMode", "EXIT_EMERGENCY_CALLBACK_MODE">>,
              <<"getSmscAddress", "GET_SMSC_ADDRESS">> },
             dispatchVoid)
  \cup Sends({ <<"setSmscAddress", "SET_SMSC_ADDRESS">> },
             dispatchString)

RequestsStkAndCells ==
       Sends({ <<"reportSmsMemoryStatus", "REPORT_SMS_MEMORY_STATUS">>,
              <<"setCellInfoListRate", "SET_UNSOL_CELL_INFO_LIST_RATE">> },
             dispatchInts)
  \cup Sends({ <<"reportStkServiceIsRunning", "REPORT_STK_SERVICE_IS_RUNNING">>,
              <<"getCdmaSubscriptionSource", "CDMA_GET_SUBSCRIPTION_SOURCE">>,
              <<"getVoiceRadioTechnology", "VOICE_RADIO_TECH">>,
              <<"getCellInfoList", "GET_CELL_INFO_LIST">> },
             dispatchVoid)
  \cup Sends({ <<"requestIsimAuthentication", "ISIM_AUTHENTICATION">>,
              <<"sendEnvelopeWithStatus", "STK_SEND_ENVELOPE_WITH_STATUS">> },
             dispatchString)
  \cup Sends({ <<"acknowledgeIncomingGsmSmsWithPdu", "ACKNOWLEDGE_INCOMING_GSM_SMS_WITH_PDU">> },
             dispatchStrings)

RequestsAttach ==
       Sends({ <<"setInitialAttachApn", "SET_INITIAL_ATTACH_APN">> },
             {NO_MEMORY, INVALID_ARGUMENTS})
  \cup Sends({ <<"getImsRegistrationState", "IMS_REGISTRATION_STATE">> },
             dispatchVoid)

RequestsImsAndApdu ==
       Sends({ <<"sendImsSms", "IMS_SEND_SMS">> },
             {NO_MEMORY, INVALID_ARGUMENTS})
  \cup Sends({ <<"iccTransmitApduBasicChannel", "SIM_TRANSMIT_APDU_BASIC">> },
             dispatchIccApdu)
  \cup Sends({ <<"iccOpenLogicalChannel", "SIM_OPEN_CHANNEL">> },
             copyHidlStringToRil)

RequestsNv ==
       Sends({ <<"iccCloseLogicalChannel", "SIM_CLOSE_CHANNEL">>,
              <<"nvResetConfig", "NV_RESET_CONFIG">>, <<"setDataAllowed", "ALLOW_DATA">> },
             dispatchInts)
  \cup Sends({ <<"iccTransmitApduLogicalChannel", "SIM_TRANSMIT_APDU_CHANNEL">> },
             dispatchIccApdu)
  \cup Sends({ <<"nvReadItem", "NV_READ_ITEM">>,
              <<"setUiccSubscription", "SET_UICC_SUBSCRIPTION">> },
             {})
  \cup Sends({ <<"nvWriteItem", "NV_WRITE_ITEM">> },
             copyHidlStringToRil)
  \cup Sends({ <<"nvWriteCdmaPrl", "NV_WRITE_CDMA_PRL">> },
             dispatchRaw)
  \cup Sends({ <<"getHardwareConfig", "GET_HARDWARE_CONFIG">> },
             dispatchVoid)

RequestsSimAuthentication ==
       Sends({ <<"requestIccSimAuthentication", "SIM_AUTHENTICATION">> },
             copyHidlStringToRil)

RequestsDataProfile ==
       Sends({ <<"setDataProfile", "SET_DATA_PROFILE">> },
             {NO_MEMORY, INVALID_ARGUMENTS})

RequestsCapabilityAndCarriers ==
       Sends({ <<"requestShutdown", "SHUTDOWN">>,
              <<"getRadioCapability", "GET_RADIO_CAPABILITY">>,
              <<"stopLceService", "STOP_LCE">>, <<"pullLceData", "PULL_LCEDATA">>,
              <<"getModemActivityInfo", "GET_ACTIVITY_INFO">>,
              <<"getAllowedCarriers", "GET_CARRIER_RESTRICTIONS">> },
             dispatchVoid)
  \cup Sends({ <<"setRadioCapability", "SET_RADIO_CAPABILITY">> },
             {})
  \cup Sends({ <<"startLceService", "START_LCE">> },
             dispatchInts)
  \cup Sends({ <<"setAllowedCarriers", "SET_CARRIER_RESTRICTIONS">> },
             {NO_MEMORY})

RequestsDeviceState ==
       Sends({ <<"sendDeviceState", "SEND_DEVICE_STATE">>,
              <<"setIndicationFilter", "SET_UNSOLICITED_RESPONSE_FILTER">>,
              <<"setSimCardPower", "SET_SIM_CARD_POWER">>,
              <<"setSimCardPower_1_1", "SET_SIM_CARD_POWER">> },
             dispatchInts)
  \cup Sends({ <<"setCarrierInfoForImsiEncryption", "SET_CARRIER_INFO_IMSI_ENCRYPTION">> },
             copyHidlStringToRil)
  \cup Sends({ <<"startKeepalive", "START_KEEPALIVE">> },
             {INVALID_ARGUMENTS})
  \cup Sends({ <<"stopKeepalive", "STOP_KEEPALIVE">> },
             {})

RequestsOemHook ==
       Sends({ <<"sendRequestRaw", "OEM_HOOK_RAW">> },
             dispatchRaw)
  \cup Sends({ <<"sendRequestStrings", "OEM_HOOK_STRINGS">> },
             dispatchStrings)

Requests ==
  RequestsSimAndCalls \cup RequestsCallsAndNetwork \cup RequestsDataAndForwarding
  \cup RequestsLocksAndNetworks \cup RequestsScanAndDtmf \cup RequestsSmsStkAndRadio
  \cup RequestsCdma \cup RequestsBroadcastSms \cup RequestsStkAndCells \cup RequestsAttach
  \cup RequestsImsAndApdu \cup RequestsNv \cup RequestsSimAuthentication
  \cup RequestsDataProfile \cup RequestsCapabilityAndCarriers \cup RequestsDeviceState
  \cup RequestsOemHook

(***************************************************************************)
(* What depends on the vendor library's RIL version.  Below version 15 the *)
(* screen state is the only device state there is, indication filters do   *)
(* not exist, and the carrier type of an access point (its mvnoType) is    *)
(* neither converted nor checked.                                          *)
(***************************************************************************)
SentAs(method, request, version, screen) ==
  IF method = "sendDeviceState" /\ version < 15 /\ screen
  THEN "SCREEN_STATE" ELSE request

Unsupported(method, version, screen) ==
  /\ version < 15
  /\ \/ method = "setIndicationFilter"
     \/ method = "sendDeviceState" /\ ~screen

Refusals(method, errors, version, screen) ==
  CASE Unsupported(method, version, screen) -> {REQUEST_NOT_SUPPORTED}
    [] method \in {"setupDataCall", "setInitialAttachApn", "setDataProfile"} /\ version < 15 ->
         errors \ {INVALID_ARGUMENTS}
    [] OTHER -> errors

s_commands ==
  << <<"GET_SIM_STATUS", "getIccCardStatusResponse">>,
     <<"ENTER_SIM_PIN", "supplyIccPinForAppResponse">>,
     <<"ENTER_SIM_PUK", "supplyIccPukForAppResponse">>,
     <<"ENTER_SIM_PIN2", "supplyIccPin2ForAppResponse">>,
     <<"ENTER_SIM_PUK2", "supplyIccPuk2ForAppResponse">>,
     <<"CHANGE_SIM_PIN", "changeIccPinForAppResponse">>,
     <<"CHANGE_SIM_PIN2", "changeIccPin2ForAppResponse">>,
     <<"ENTER_NETWORK_DEPERSONALIZATION", "supplyNetworkDepersonalizationResponse">>,
     <<"GET_CURRENT_CALLS", "getCurrentCallsResponse">>, <<"DIAL", "dialResponse">>,
     <<"GET_IMSI", "getIMSIForAppResponse">>, <<"HANGUP", "hangupConnectionResponse">>,
     <<"HANGUP_WAITING_OR_BACKGROUND", "hangupWaitingOrBackgroundResponse">>,
     <<"HANGUP_FOREGROUND_RESUME_BACKGROUND", "hangupForegroundResumeBackgroundResponse">>,
     <<"SWITCH_WAITING_OR_HOLDING_AND_ACTIVE", "switchWaitingOrHoldingAndActiveResponse">>,
     <<"CONFERENCE", "conferenceResponse">>, <<"UDUB", "rejectCallResponse">>,
     <<"LAST_CALL_FAIL_CAUSE", "getLastCallFailCauseResponse">>,
     <<"SIGNAL_STRENGTH", "getSignalStrengthResponse">>,
     <<"VOICE_REGISTRATION_STATE", "getVoiceRegistrationStateResponse">>,
     <<"DATA_REGISTRATION_STATE", "getDataRegistrationStateResponse">>,
     <<"OPERATOR", "getOperatorResponse">>, <<"RADIO_POWER", "setRadioPowerResponse">>,
     <<"DTMF", "sendDtmfResponse">>, <<"SEND_SMS", "sendSmsResponse">>,
     <<"SEND_SMS_EXPECT_MORE", "sendSMSExpectMoreResponse">>,
     <<"SETUP_DATA_CALL", "setupDataCallResponse">>, <<"SIM_IO", "iccIOForAppResponse">>,
     <<"SEND_USSD", "sendUssdResponse">>, <<"CANCEL_USSD", "cancelPendingUssdResponse">>,
     <<"GET_CLIR", "getClirResponse">>, <<"SET_CLIR", "setClirResponse">>,
     <<"QUERY_CALL_FORWARD_STATUS", "getCallForwardStatusResponse">>,
     <<"SET_CALL_FORWARD", "setCallForwardResponse">>,
     <<"QUERY_CALL_WAITING", "getCallWaitingResponse">>,
     <<"SET_CALL_WAITING", "setCallWaitingResponse">>,
     <<"SMS_ACKNOWLEDGE", "acknowledgeLastIncomingGsmSmsResponse">>, <<"GET_IMEI", "NULL">>,
     <<"GET_IMEISV", "NULL">>, <<"ANSWER", "acceptCallResponse">>,
     <<"DEACTIVATE_DATA_CALL", "deactivateDataCallResponse">>,
     <<"QUERY_FACILITY_LOCK", "getFacilityLockForAppResponse">>,
     <<"SET_FACILITY_LOCK", "setFacilityLockForAppResponse">>,
     <<"CHANGE_BARRING_PASSWORD", "setBarringPasswordResponse">>,
     <<"QUERY_NETWORK_SELECTION_MODE", "getNetworkSelectionModeResponse">>,
     <<"SET_NETWORK_SELECTION_AUTOMATIC", "setNetworkSelectionModeAutomaticResponse">>,
     <<"SET_NETWORK_SELECTION_MANUAL", "setNetworkSelectionModeManualResponse">>,
     <<"QUERY_AVAILABLE_NETWORKS", "getAvailableNetworksResponse">>,
     <<"DTMF_START", "startDtmfResponse">>, <<"DTMF_STOP", "stopDtmfResponse">>,
     <<"BASEBAND_VERSION", "getBasebandVersionResponse">>,
     <<"SEPARATE_CONNECTION", "separateConnectionResponse">>,
     <<"SET_MUTE", "setMuteResponse">>, <<"GET_MUTE", "getMuteResponse">>,
     <<"QUERY_CLIP", "getClipResponse">>, <<"LAST_DATA_CALL_FAIL_CAUSE", "NULL">>,
     <<"DATA_CALL_LIST", "getDataCallListResponse">>, <<"RESET_RADIO", "NULL">>,
     <<"OEM_HOOK_RAW", "sendRequestRawResponse">>,
     <<"OEM_HOOK_STRINGS", "sendRequestStringsResponse">>,
     <<"SCREEN_STATE", "sendDeviceStateResponse">>,
     <<"SET_SUPP_SVC_NOTIFICATION", "setSuppServiceNotificationsResponse">>,
     <<"WRITE_SMS_TO_SIM", "writeSmsToSimResponse">>,
     <<"DELETE_SMS_ON_SIM", "deleteSmsOnSimResponse">>,
     <<"SET_BAND_MODE", "setBandModeResponse">>,
     <<"QUERY_AVAILABLE_BAND_MODE", "getAvailableBandModesResponse">>,
     <<"STK_GET_PROFILE", "NULL">>, <<"STK_SET_PROFILE", "NULL">>,
     <<"STK_SEND_ENVELOPE_COMMAND", "sendEnvelopeResponse">>,
     <<"STK_SEND_TERMINAL_RESPONSE", "sendTerminalResponseToSimResponse">>,
     <<"STK_HANDLE_CALL_SETUP_REQUESTED_FROM_SIM", "handleStkCallSetupRequestFromSimResponse">>,
     <<"EXPLICIT_CALL_TRANSFER", "explicitCallTransferResponse">>,
     <<"SET_PREFERRED_NETWORK_TYPE", "setPreferredNetworkTypeResponse">>,
     <<"GET_PREFERRED_NETWORK_TYPE", "getPreferredNetworkTypeResponse">>,
     <<"GET_NEIGHBORING_CELL_IDS", "getNeighboringCidsResponse">>,
     <<"SET_LOCATION_UPDATES", "setLocationUpdatesResponse">>,
     <<"CDMA_SET_SUBSCRIPTION_SOURCE", "setCdmaSubscriptionSourceResponse">>,
     <<"CDMA_SET_ROAMING_PREFERENCE", "setCdmaRoamingPreferenceResponse">>,
     <<"CDMA_QUERY_ROAMING_PREFERENCE", "getCdmaRoamingPreferenceResponse">>,
     <<"SET_TTY_MODE", "setTTYModeResponse">>, <<"QUERY_TTY_MODE", "getTTYModeResponse">>,
     <<"CDMA_SET_PREFERRED_VOICE_PRIVACY_MODE", "setPreferredVoicePrivacyResponse">>,
     <<"CDMA_QUERY_PREFERRED_VOICE_PRIVACY_MODE", "getPreferredVoicePrivacyResponse">>,
     <<"CDMA_FLASH", "sendCDMAFeatureCodeResponse">>,
     <<"CDMA_BURST_DTMF", "sendBurstDtmfResponse">>,
     <<"CDMA_VALIDATE_AND_WRITE_AKEY", "NULL">>, <<"CDMA_SEND_SMS", "sendCdmaSmsResponse">>,
     <<"CDMA_SMS_ACKNOWLEDGE", "acknowledgeLastIncomingCdmaSmsResponse">>,
     <<"GSM_GET_BROADCAST_SMS_CONFIG", "getGsmBroadcastConfigResponse">>,
     <<"GSM_SET_BROADCAST_SMS_CONFIG", "setGsmBroadcastConfigResponse">>,
     <<"GSM_SMS_BROADCAST_ACTIVATION", "setGsmBroadcastActivationResponse">>,
     <<"CDMA_GET_BROADCAST_SMS_CONFIG", "getCdmaBroadcastConfigResponse">>,
     <<"CDMA_SET_BROADCAST_SMS_CONFIG", "setCdmaBroadcastConfigResponse">>,
     <<"CDMA_SMS_BROADCAST_ACTIVATION", "setCdmaBroadcastActivationResponse">>,
     <<"CDMA_SUBSCRIPTION", "getCDMASubscriptionResponse">>,
     <<"CDMA_WRITE_SMS_TO_RUIM", "writeSmsToRuimResponse">>,
     <<"CDMA_DELETE_SMS_ON_RUIM", "deleteSmsOnRuimResponse">>,
     <<"DEVICE_IDENTITY", "getDeviceIdentityResponse">>,
     <<"EXIT_EMERGENCY_CALLBACK_MODE", "exitEmergencyCallbackModeResponse">>,
     <<"GET_SMSC_ADDRESS", "getSmscAddressResponse">>,
     <<"SET_SMSC_ADDRESS", "setSmscAddressResponse">>,
     <<"REPORT_SMS_MEMORY_STATUS", "reportSmsMemoryStatusResponse">>,
     <<"REPORT_STK_SERVICE_IS_RUNNING", "reportStkServiceIsRunningResponse">>,
     <<"CDMA_GET_SUBSCRIPTION_SOURCE", "getCdmaSubscriptionSourceResponse">>,
     <<"ISIM_AUTHENTICATION", "requestIsimAuthenticationResponse">>,
     <<"ACKNOWLEDGE_INCOMING_GSM_SMS_WITH_PDU", "acknowledgeIncomingGsmSmsWithPduResponse">>,
     <<"STK_SEND_ENVELOPE_WITH_STATUS", "sendEnvelopeWithStatusResponse">>,
     <<"VOICE_RADIO_TECH", "getVoiceRadioTechnologyResponse">>,
     <<"GET_CELL_INFO_LIST", "getCellInfoListResponse">>,
     <<"SET_UNSOL_CELL_INFO_LIST_RATE", "setCellInfoListRateResponse">>,
     <<"SET_INITIAL_ATTACH_APN", "setInitialAttachApnResponse">>,
     <<"IMS_REGISTRATION_STATE", "getImsRegistrationStateResponse">>,
     <<"IMS_SEND_SMS", "sendImsSmsResponse">>,
     <<"SIM_TRANSMIT_APDU_BASIC", "iccTransmitApduBasicChannelResponse">>,
     <<"SIM_OPEN_CHANNEL", "iccOpenLogicalChannelResponse">>,
     <<"SIM_CLOSE_CHANNEL", "iccCloseLogicalChannelResponse">>,
     <<"SIM_TRANSMIT_APDU_CHANNEL", "iccTransmitApduLogicalChannelResponse">>,
     <<"NV_READ_ITEM", "nvReadItemResponse">>, <<"NV_WRITE_ITEM", "nvWriteItemResponse">>,
     <<"NV_WRITE_CDMA_PRL", "nvWriteCdmaPrlResponse">>,
     <<"NV_RESET_CONFIG", "nvResetConfigResponse">>,
     <<"SET_UICC_SUBSCRIPTION", "setUiccSubscriptionResponse">>,
     <<"ALLOW_DATA", "setDataAllowedResponse">>,
     <<"GET_HARDWARE_CONFIG", "getHardwareConfigResponse">>,
     <<"SIM_AUTHENTICATION", "requestIccSimAuthenticationResponse">>,
     <<"GET_DC_RT_INFO", "NULL">>, <<"SET_DC_RT_INFO_RATE", "NULL">>,
     <<"SET_DATA_PROFILE", "setDataProfileResponse">>,
     <<"SHUTDOWN", "requestShutdownResponse">>,
     <<"GET_RADIO_CAPABILITY", "getRadioCapabilityResponse">>,
     <<"SET_RADIO_CAPABILITY", "setRadioCapabilityResponse">>,
     <<"START_LCE", "startLceServiceResponse">>, <<"STOP_LCE", "stopLceServiceResponse">>,
     <<"PULL_LCEDATA", "pullLceDataResponse">>,
     <<"GET_ACTIVITY_INFO", "getModemActivityInfoResponse">>,
     <<"SET_CARRIER_RESTRICTIONS", "setAllowedCarriersResponse">>,
     <<"GET_CARRIER_RESTRICTIONS", "getAllowedCarriersResponse">>,
     <<"SEND_DEVICE_STATE", "sendDeviceStateResponse">>,
     <<"SET_UNSOLICITED_RESPONSE_FILTER", "setIndicationFilterResponse">>,
     <<"SET_SIM_CARD_POWER", "setSimCardPowerResponse">>,
     <<"SET_CARRIER_INFO_IMSI_ENCRYPTION", "setCarrierInfoForImsiEncryptionResponse">>,
     <<"START_NETWORK_SCAN", "startNetworkScanResponse">>,
     <<"STOP_NETWORK_SCAN", "stopNetworkScanResponse">>,
     <<"START_KEEPALIVE", "startKeepaliveResponse">>,
     <<"STOP_KEEPALIVE", "stopKeepaliveResponse">> >>

s_unsolResponses ==
  << <<"RESPONSE_RADIO_STATE_CHANGED", "radioStateChangedInd", "WAKE_PARTIAL">>,
     <<"RESPONSE_CALL_STATE_CHANGED", "callStateChangedInd", "WAKE_PARTIAL">>,
     <<"RESPONSE_VOICE_NETWORK_STATE_CHANGED", "networkStateChangedInd", "WAKE_PARTIAL">>,
     <<"RESPONSE_NEW_SMS", "newSmsInd", "WAKE_PARTIAL">>,
     <<"RESPONSE_NEW_SMS_STATUS_REPORT", "newSmsStatusReportInd", "WAKE_PARTIAL">>,
     <<"RESPONSE_NEW_SMS_ON_SIM", "newSmsOnSimInd", "WAKE_PARTIAL">>,
     <<"ON_USSD", "onUssdInd", "WAKE_PARTIAL">>,
     <<"ON_USSD_REQUEST", "onUssdInd", "DONT_WAKE">>,
     <<"NITZ_TIME_RECEIVED", "nitzTimeReceivedInd", "WAKE_PARTIAL">>,
     <<"SIGNAL_STRENGTH", "currentSignalStrengthInd", "DONT_WAKE">>,
     <<"DATA_CALL_LIST_CHANGED", "dataCallListChangedInd", "WAKE_PARTIAL">>,
     <<"SUPP_SVC_NOTIFICATION", "suppSvcNotifyInd", "WAKE_PARTIAL">>,
     <<"STK_SESSION_END", "stkSessionEndInd", "WAKE_PARTIAL">>,
     <<"STK_PROACTIVE_COMMAND", "stkProactiveCommandInd", "WAKE_PARTIAL">>,
     <<"STK_EVENT_NOTIFY", "stkEventNotifyInd", "WAKE_PARTIAL">>,
     <<"STK_CALL_SETUP", "stkCallSetupInd", "WAKE_PARTIAL">>,
     <<"SIM_SMS_STORAGE_FULL", "simSmsStorageFullInd", "WAKE_PARTIAL">>,
     <<"SIM_REFRESH", "simRefreshInd", "WAKE_PARTIAL">>,
     <<"CALL_RING", "callRingInd", "WAKE_PARTIAL">>,
     <<"RESPONSE_SIM_STATUS_CHANGED", "simStatusChangedInd", "WAKE_PARTIAL">>,
     <<"RESPONSE_CDMA_NEW_SMS", "cdmaNewSmsInd", "WAKE_PARTIAL">>,
     <<"RESPONSE_NEW_BROADCAST_SMS", "newBroadcastSmsInd", "WAKE_PARTIAL">>,
     <<"CDMA_RUIM_SMS_STORAGE_FULL", "cdmaRuimSmsStorageFullInd", "WAKE_PARTIAL">>,
     <<"RESTRICTED_STATE_CHANGED", "restrictedStateChangedInd", "WAKE_PARTIAL">>,
     <<"ENTER_EMERGENCY_CALLBACK_MODE", "enterEmergencyCallbackModeInd", "WAKE_PARTIAL">>,
     <<"CDMA_CALL_WAITING", "cdmaCallWaitingInd", "WAKE_PARTIAL">>,
     <<"CDMA_OTA_PROVISION_STATUS", "cdmaOtaProvisionStatusInd", "WAKE_PARTIAL">>,
     <<"CDMA_INFO_REC", "cdmaInfoRecInd", "WAKE_PARTIAL">>,
     <<"OEM_HOOK_RAW", "oemHookRawInd", "WAKE_PARTIAL">>,
     <<"RINGBACK_TONE", "indicateRingbackToneInd", "WAKE_PARTIAL">>,
     <<"RESEND_INCALL_MUTE", "resendIncallMuteInd", "WAKE_PARTIAL">>,
     <<"CDMA_SUBSCRIPTION_SOURCE_CHANGED", "cdmaSubscriptionSourceChangedInd", "WAKE_PARTIAL">>,
     <<"CDMA_PRL_CHANGED", "cdmaPrlChangedInd", "WAKE_PARTIAL">>,
     <<"EXIT_EMERGENCY_CALLBACK_MODE", "exitEmergencyCallbackModeInd", "WAKE_PARTIAL">>,
     <<"RIL_CONNECTED", "rilConnectedInd", "WAKE_PARTIAL">>,
     <<"VOICE_RADIO_TECH_CHANGED", "voiceRadioTechChangedInd", "WAKE_PARTIAL">>,
     <<"CELL_INFO_LIST", "cellInfoListInd", "WAKE_PARTIAL">>,
     <<"RESPONSE_IMS_NETWORK_STATE_CHANGED", "imsNetworkStateChangedInd", "WAKE_PARTIAL">>,
     <<"UICC_SUBSCRIPTION_STATUS_CHANGED", "subscriptionStatusChangedInd", "WAKE_PARTIAL">>,
     <<"SRVCC_STATE_NOTIFY", "srvccStateNotifyInd", "WAKE_PARTIAL">>,
     <<"HARDWARE_CONFIG_CHANGED", "hardwareConfigChangedInd", "WAKE_PARTIAL">>,
     <<"DC_RT_INFO_CHANGED", "NULL", "WAKE_PARTIAL">>,
     <<"RADIO_CAPABILITY", "radioCapabilityIndicationInd", "WAKE_PARTIAL">>,
     <<"ON_SS", "onSupplementaryServiceIndicationInd", "WAKE_PARTIAL">>,
     <<"STK_CC_ALPHA_NOTIFY", "stkCallControlAlphaNotifyInd", "WAKE_PARTIAL">>,
     <<"LCEDATA_RECV", "lceDataInd", "WAKE_PARTIAL">>,
     <<"PCO_DATA", "pcoDataInd", "WAKE_PARTIAL">>,
     <<"MODEM_RESTART", "modemResetInd", "WAKE_PARTIAL">>,
     <<"CARRIER_INFO_IMSI_ENCRYPTION", "carrierInfoForImsiEncryption", "WAKE_PARTIAL">>,
     <<"NETWORK_SCAN_RESULT", "networkScanResultInd", "WAKE_PARTIAL">> >>

==============================================================================
