----------------------------- MODULE RadioAnswers -----------------------------
(***************************************************************************)
(* The response and indication functions of the radio service              *)
(* (libril/ril_service.cpp, namespace radio): which callback of the client *)
(* each response function invokes, and what it demands of the vendor's     *)
(* payload.  Every response function has the same body: when the client's  *)
(* callbacks are registered, fill in the serial number and the error,      *)
(* check and convert the payload, invoke the callback and look at the      *)
(* status of the call.  What differs is the callback and the demand:       *)
(*                                                                         *)
(*   ignored  nothing is read, or a NULL string becomes an empty one;      *)
(*   exact    the payload must be there and have the size of its type (or  *)
(*            of one of its versions), and its contents must convert;      *)
(*   orEmpty  as exact, but NULL stands for an empty list, an unknown      *)
(*            number of retries, a failed data call or no restriction;     *)
(*   nonNull  any payload but NULL (for indications: NULL or no bytes).    *)
(***************************************************************************)
EXTENDS TLC

Answers(demand, functions) ==
  [f \in functions |-> [callback |-> f, payload |-> demand]]

Reports(demand, functions) == [f \in functions |-> demand]

AnswersSimPin ==
     Answers("exact", {"getIccCardStatusResponse"})
  @@ Answers("orEmpty", {"supplyIccPinForAppResponse", "supplyIccPukForAppResponse",
                         "supplyIccPin2ForAppResponse", "supplyIccPuk2ForAppResponse"})

AnswersPinAndCallList ==
     Answers("orEmpty", {"changeIccPinForAppResponse", "changeIccPin2ForAppResponse",
                         "supplyNetworkDepersonalizationResponse", "getCurrentCallsResponse"})
  @@ Answers("ignored", {"dialResponse"})

AnswersCalls ==
     Answers("ignored", {"getIMSIForAppResponse", "hangupConnectionResponse",
                         "hangupWaitingOrBackgroundResponse",
                         "switchWaitingOrHoldingAndActiveResponse", "conferenceResponse",
                         "rejectCallResponse"})
  @@ ("hangupForegroundResumeBackgroundResponse" :>
          [callback |-> "hangupWaitingOrBackgroundResponse", payload |-> "ignored"])

AnswersFailCauseAndSignal ==
     Answers("exact", {"getLastCallFailCauseResponse", "getSignalStrengthResponse"})

AnswersRegistration ==
     Answers("exact", {"getVoiceRegistrationStateResponse", "getDataRegistrationStateResponse"})

AnswersOperatorAndSms ==
     Answers("exact", {"getOperatorResponse", "sendSmsResponse", "sendSMSExpectMoreResponse"})
  @@ Answers("ignored", {"setRadioPowerResponse", "sendDtmfResponse"})

AnswersDataCallAndUssd ==
     Answers("orEmpty", {"setupDataCallResponse"})
  @@ Answers("exact", {"iccIOForAppResponse"})
  @@ Answers("ignored", {"sendUssdResponse", "cancelPendingUssdResponse"})

AnswersClirAndForwarding ==
     Answers("exact", {"getClirResponse", "getCallWaitingResponse"})
  @@ Answers("ignored", {"setClirResponse", "setCallForwardResponse"})
  @@ Answers("orEmpty", {"getCallForwardStatusResponse"})

AnswersWaitingAndLocks ==
     Answers("ignored", {"setCallWaitingResponse", "acknowledgeLastIncomingGsmSmsResponse",
                         "acceptCallResponse", "deactivateDataCallResponse",
                         "setBarringPasswordResponse"})
  @@ Answers("exact", {"getFacilityLockForAppResponse"})
  @@ Answers("orEmpty", {"setFacilityLockForAppResponse"})

AnswersNetworkSelection ==
     Answers("exact", {"getNetworkSelectionModeResponse"})
  @@ Answers("ignored", {"setNetworkSelectionModeAutomaticResponse",
                         "setNetworkSelectionModeManualResponse"})
  @@ Answers("orEmpty", {"getAvailableNetworksResponse"})

AnswersDtmfAndMute ==
     Answers("ignored", {"startDtmfResponse", "stopDtmfResponse",
                         "getBasebandVersionResponse", "separateConnectionResponse",
                         "setMuteResponse"})
  @@ Answers("exact", {"getMuteResponse", "getClipResponse"})

AnswersDataCallListAndBands ==
     Answers("orEmpty", {"getDataCallListResponse", "getAvailableBandModesResponse"})
  @@ Answers("ignored", {"setSuppServiceNotificationsResponse", "deleteSmsOnSimResponse",
                         "setBandModeResponse"})
  @@ Answers("exact", {"writeSmsToSimResponse"})

AnswersStk ==
     Answers("ignored", {"sendEnvelopeResponse", "sendTerminalResponseToSimResponse",
                         "handleStkCallSetupRequestFromSimResponse",
                         "explicitCallTransferResponse", "setPreferredNetworkTypeResponse"})
  @@ Answers("exact", {"getPreferredNetworkTypeResponse"})

AnswersCellsAndCdmaModes ==
     Answers("orEmpty", {"getNeighboringCidsResponse"})
  @@ Answers("ignored", {"setLocationUpdatesResponse", "setCdmaSubscriptionSourceResponse",
                         "setCdmaRoamingPreferenceResponse", "setTTYModeResponse"})
  @@ Answers("exact", {"getCdmaRoamingPreferenceResponse"})

AnswersVoicePrivacyAndCdmaSms ==
     Answers("exact", {"getTTYModeResponse", "getPreferredVoicePrivacyResponse",
                       "sendCdmaSmsResponse"})
  @@ Answers("ignored", {"setPreferredVoicePrivacyResponse", "sendCDMAFeatureCodeResponse",
                         "sendBurstDtmfResponse"})

AnswersBroadcastConfig ==
     Answers("ignored", {"acknowledgeLastIncomingCdmaSmsResponse",
                         "setGsmBroadcastConfigResponse", "setGsmBroadcastActivationResponse"})
  @@ Answers("orEmpty", {"getGsmBroadcastConfigResponse", "getCdmaBroadcastConfigResponse"})

AnswersCdmaSubscription ==
     Answers("ignored", {"setCdmaBroadcastConfigResponse",
                         "setCdmaBroadcastActivationResponse", "deleteSmsOnRuimResponse"})
  @@ Answers("exact", {"getCDMASubscriptionResponse", "writeSmsToRuimResponse"})

AnswersIdentityAndSmsc ==
     Answers("exact", {"getDeviceIdentityResponse"})
  @@ Answers("ignored", {"exitEmergencyCallbackModeResponse", "getSmscAddressResponse",
                         "setSmscAddressResponse", "reportSmsMemoryStatusResponse",
                         "reportStkServiceIsRunningResponse"})

AnswersSourcesAndEnvelopes ==
     Answers("exact", {"getCdmaSubscriptionSourceResponse", "sendEnvelopeWithStatusResponse",
                       "getVoiceRadioTechnologyResponse"})
  @@ Answers("ignored", {"requestIsimAuthenticationResponse",
                         "acknowledgeIncomingGsmSmsWithPduResponse"})
  @@ Answers("orEmpty", {"getCellInfoListResponse"})

AnswersAttachAndIms ==
     Answers("ignored", {"setCellInfoListRateResponse", "setInitialAttachApnResponse"})
  @@ Answers("exact", {"getImsRegistrationStateResponse", "sendImsSmsResponse",
                       "iccTransmitApduBasicChannelResponse"})

AnswersChannelsAndNv ==
     Answers("orEmpty", {"iccOpenLogicalChannelResponse"})
  @@ Answers("ignored", {"iccCloseLogicalChannelResponse", "nvReadItemResponse",
                         "nvWriteItemResponse", "nvWriteCdmaPrlResponse"})
  @@ Answers("exact", {"iccTransmitApduLogicalChannelResponse"})

AnswersUiccAndAuthentication ==
     Answers("ignored", {"nvResetConfigResponse", "setUiccSubscriptionResponse",
                         "setDataAllowedResponse", "setDataProfileResponse"})
  @@ Answers("orEmpty", {"getHardwareConfigResponse"})
  @@ Answers("exact", {"requestIccSimAuthenticationResponse"})

AnswersCapabilityAndLce ==
     Answers("ignored", {"requestShutdownResponse"})
  @@ Answers("exact", {"getRadioCapabilityResponse", "setRadioCapabilityResponse",
                       "startLceServiceResponse", "stopLceServiceResponse"})

AnswersActivityAndCarriers ==
     Answers("exact", {"pullLceDataResponse", "getModemActivityInfoResponse",
                       "setAllowedCarriersResponse"})
  @@ Answers("orEmpty", {"getAllowedCarriersResponse"})

AnswersDeviceStateAndScan ==
     Answers("ignored", {"sendDeviceStateResponse", "setCarrierInfoForImsiEncryptionResponse",
                         "setIndicationFilterResponse", "setSimCardPowerResponse",
                         "startNetworkScanResponse", "stopNetworkScanResponse"})

AnswersKeepaliveAndOemHook ==
     Answers("exact", {"startKeepaliveResponse"})
  @@ Answers("ignored", {"stopKeepaliveResponse"})
  @@ Answers("nonNull", {"sendRequestRawResponse"})
  @@ Answers("orEmpty", {"sendRequestStringsResponse"})

Responses ==
  AnswersSimPin @@ AnswersPinAndCallList @@ AnswersCalls @@ AnswersFailCauseAndSignal
  @@ AnswersRegistration @@ AnswersOperatorAndSms @@ AnswersDataCallAndUssd
  @@ AnswersClirAndForwarding @@ AnswersWaitingAndLocks @@ AnswersNetworkSelection
  @@ AnswersDtmfAndMute @@ AnswersDataCallListAndBands @@ AnswersStk
  @@ AnswersCellsAndCdmaModes @@ AnswersVoicePrivacyAndCdmaSms @@ AnswersBroadcastConfig
  @@ AnswersCdmaSubscription @@ AnswersIdentityAndSmsc @@ AnswersSourcesAndEnvelopes
  @@ AnswersAttachAndIms @@ AnswersChannelsAndNv @@ AnswersUiccAndAuthentication
  @@ AnswersCapabilityAndLce @@ AnswersActivityAndCarriers @@ AnswersDeviceStateAndScan
  @@ AnswersKeepaliveAndOemHook

IndicationsState ==
     Reports("ignored", {"radioStateChangedInd", "callStateChangedInd",
                         "networkStateChangedInd"})

IndicationsSmsAndTime ==
     Reports("exact", {"newSmsInd", "newSmsStatusReportInd", "newSmsOnSimInd", "onUssdInd"})
  @@ Reports("nonNull", {"nitzTimeReceivedInd"})

IndicationsSignal ==
     Reports("exact", {"currentSignalStrengthInd"})

IndicationsDataAndStk ==
     Reports("orEmpty", {"dataCallListChangedInd"})
  @@ Reports("exact", {"suppSvcNotifyInd", "stkCallSetupInd"})
  @@ Reports("ignored", {"stkSessionEndInd"})
  @@ Reports("nonNull", {"stkProactiveCommandInd", "stkEventNotifyInd"})

IndicationsSimAndRing ==
     Reports("ignored", {"simSmsStorageFullInd", "simStatusChangedInd"})
  @@ Reports("exact", {"simRefreshInd", "cdmaNewSmsInd"})
  @@ Reports("orEmpty", {"callRingInd"})

IndicationsBroadcastAndCdma ==
     Reports("nonNull", {"newBroadcastSmsInd"})
  @@ Reports("ignored", {"cdmaRuimSmsStorageFullInd", "enterEmergencyCallbackModeInd"})
  @@ Reports("exact", {"restrictedStateChangedInd", "cdmaCallWaitingInd",
                       "cdmaOtaProvisionStatusInd"})

IndicationsCdmaInfo ==
     Reports("exact", {"cdmaInfoRecInd"})

IndicationsConnectAndTech ==
     Reports("exact", {"indicateRingbackToneInd", "cdmaSubscriptionSourceChangedInd",
                       "cdmaPrlChangedInd", "voiceRadioTechChangedInd"})
  @@ Reports("ignored", {"resendIncallMuteInd", "exitEmergencyCallbackModeInd",
                         "rilConnectedInd"})

IndicationsCellsAndIms ==
     Reports("orEmpty", {"cellInfoListInd"})
  @@ Reports("ignored", {"imsNetworkStateChangedInd"})
  @@ Reports("exact", {"subscriptionStatusChangedInd", "srvccStateNotifyInd"})

IndicationsHardware ==
     Reports("orEmpty", {"hardwareConfigChangedInd"})
  @@ Reports("exact", {"radioCapabilityIndicationInd"})

IndicationsSupplementary ==
     Reports("exact", {"onSupplementaryServiceIndicationInd"})
  @@ Reports("nonNull", {"stkCallControlAlphaNotifyInd"})

IndicationsLceAndScan ==
     Reports("exact", {"lceDataInd", "pcoDataInd"})
  @@ Reports("nonNull", {"modemResetInd", "networkScanResultInd",
                         "carrierInfoForImsiEncryption"})

IndicationsKeepaliveAndOem ==
     Reports("exact", {"keepaliveStatusInd"})
  @@ Reports("nonNull", {"oemHookRawInd"})

Indications ==
  IndicationsState @@ IndicationsSmsAndTime @@ IndicationsSignal @@ IndicationsDataAndStk
  @@ IndicationsSimAndRing @@ IndicationsBroadcastAndCdma @@ IndicationsCdmaInfo
  @@ IndicationsConnectAndTech @@ IndicationsCellsAndIms @@ IndicationsHardware
  @@ IndicationsSupplementary @@ IndicationsLceAndScan @@ IndicationsKeepaliveAndOem

==============================================================================
