---------------------------- MODULE ServerStubs -----------------------------
(***************************************************************************)
(* What the server decodes for each generated call, in the order it reads  *)
(* the request and passes the arguments: server/generated/dispatch.cpp.    *)
(* The families are in the order of the file.                              *)
(***************************************************************************)
EXTENDS StubParams

\* Mutant of CaseSynced: the outputs are sent back as soon as the call returns.
Unsynced(names, params)   == [n \in names |-> [params |-> params, syncs |-> FALSE]]

(* A case calls the driver, and one kind waits for the stream afterwards.  *)
Case(names, params)       == [n \in names |-> [params |-> params, syncs |-> FALSE]]
CaseSynced(names, params) == [n \in names |-> [params |-> params, syncs |-> TRUE]]

ArraysServed ==
     Case({"cuArrayDestroy"}, <<In>>)
  @@ Case({"cuArrayGetPlane"}, <<Out, In, In>>)
  @@ Case({"cuCheckpointProcessGetRestoreThreadId", "cuCheckpointProcessGetState"}, <<In, Out>>)

ContextsServed1 ==
     Case({"cuCtxAttach", "cuCtxFromGreenCtx"}, <<Out, In>>)
  @@ Case({"cuCtxCreate_v2"}, <<Out, In, In>>)
  @@ Case({"cuCtxDestroy_v2", "cuCtxDetach", "cuCtxDisablePeerAccess"}, <<In>>)
  @@ Case({"cuCtxEnablePeerAccess"}, <<In, In>>)
  @@ Case({"cuCtxGetApiVersion", "cuCtxGetId"}, <<In, Out>>)
  @@ Case({"cuCtxGetCacheConfig", "cuCtxGetCurrent", "cuCtxGetDevice", "cuCtxGetFlags"}, <<Out>>)

ContextsServed2 ==
     Case({"cuCtxGetLimit"}, <<Out, In>>)
  @@ Case({"cuCtxGetSharedMemConfig", "cuCtxPopCurrent_v2"}, <<Out>>)
  @@ Case({"cuCtxGetStreamPriorityRange"}, <<Out, Out>>)
  @@ Case({"cuCtxPushCurrent_v2", "cuCtxSetCacheConfig", "cuCtxSetCurrent", "cuCtxSetFlags",
           "cuCtxSetSharedMemConfig"}, <<In>>)
  @@ Case({"cuCtxRecordEvent", "cuCtxSetLimit", "cuCtxWaitEvent"}, <<In, In>>)
  @@ Case({"cuCtxResetPersistingL2Cache", "cuCtxSynchronize"}, <<>>)

ExternalServed ==
     Case({"cuDestroyExternalMemory", "cuDestroyExternalSemaphore"}, <<In>>)

DeviceInfoServed1 ==
     Case({"cuDeviceCanAccessPeer", "cuDeviceGetAttribute", "cuDeviceGetExecAffinitySupport"},
          <<Out, In, In>>)
  @@ Case({"cuDeviceComputeCapability"}, <<Out, Out, In>>)
  @@ Case({"cuDeviceGet", "cuDeviceGetDefaultMemPool", "cuDeviceGetMemPool"}, <<Out, In>>)
  @@ Case({"cuDeviceGetByPCIBusId"}, <<Out, Str>>)
  @@ Case({"cuDeviceGetCount"}, <<Out>>)
  @@ Case({"cuDeviceGetLuid"}, <<OutBuf(0), Out, In>>)
  @@ Case({"cuDeviceGetName"}, <<OutBuf(2), In, In>>)

DeviceInfoServed2 ==
     Case({"cuDeviceGetP2PAttribute", "cuDeviceGetTexture1DLinearMaxWidth"}, <<Out, In, In, In>>)
  @@ Case({"cuDeviceGetPCIBusId"}, <<Out, In, In>>)
  @@ Case({"cuDeviceGetUuid", "cuDeviceGetUuid_v2"}, <<PodOut, In>>)
  @@ Case({"cuDeviceGraphMemTrim"}, <<In>>)
  @@ Case({"cuDeviceSetMemPool", "cuDeviceUnregisterAsyncNotification"}, <<In, In>>)
  @@ Case({"cuDeviceTotalMem_v2"}, <<Out, In>>)

EventsServed ==
     Case({"cuEventCreate"}, <<Out, In>>)
  @@ Case({"cuEventDestroy_v2", "cuEventQuery", "cuEventSynchronize"}, <<In>>)
  @@ Case({"cuEventElapsedTime", "cuEventElapsedTime_v2"}, <<Out, In, In>>)
  @@ Case({"cuEventRecord", "cuFlushGPUDirectRDMAWrites"}, <<In, In>>)
  @@ Case({"cuEventRecordWithFlags"}, <<In, In, In>>)

FunctionsServed ==
     Case({"cuFuncGetAttribute"}, <<Out, In, In>>)
  @@ Case({"cuFuncGetModule", "cuFuncIsLoaded"}, <<Out, In>>)
  @@ Case({"cuFuncGetParamInfo"}, <<In, In, Out, Out>>)
  @@ Case({"cuFuncLoad"}, <<In>>)
  @@ Case({"cuFuncSetAttribute"}, <<In, In, In>>)
  @@ Case({"cuFuncSetBlockShape"}, <<In, In, In, In>>)
  @@ Case({"cuFuncSetCacheConfig", "cuFuncSetSharedMemConfig", "cuFuncSetSharedSize"}, <<In, In>>)

GraphNodesServed1 ==
     Case({"cuGraphChildGraphNodeGetGraph", "cuGraphEventRecordNodeGetEvent",
           "cuGraphEventWaitNodeGetEvent"}, <<In, Out>>)
  @@ Case({"cuGraphClone", "cuGraphCreate"}, <<Out, In>>)
  @@ Case({"cuGraphConditionalHandleCreate"}, <<Out, In, In, In, In>>)
  @@ Case({"cuGraphDebugDotPrint"}, <<In, Str, In>>)
  @@ Case({"cuGraphDestroy", "cuGraphDestroyNode"}, <<In>>)
  @@ Case({"cuGraphEventRecordNodeSetEvent"}, <<In, In>>)

GraphNodesServed2 ==
     Case({"cuGraphEventWaitNodeSetEvent", "cuGraphKernelNodeCopyAttributes"}, <<In, In>>)
  @@ Case({"cuGraphExecChildGraphNodeSetParams", "cuGraphExecEventRecordNodeSetEvent",
           "cuGraphExecEventWaitNodeSetEvent"}, <<In, In, In>>)
  @@ Case({"cuGraphExecDestroy"}, <<In>>)
  @@ Case({"cuGraphExecGetFlags"}, <<In, Out>>)
  @@ Case({"cuGraphGetEdges"}, <<In, Out, Out, Out>>)
  @@ Case({"cuGraphInstantiateWithFlags"}, <<Out, In, In>>)

GraphNodesServed3 ==
     Case({"cuGraphLaunch", "cuGraphUpload"}, <<In, In>>)
  @@ Case({"cuGraphMemFreeNodeGetParams", "cuGraphNodeGetType"}, <<In, Out>>)
  @@ Case({"cuGraphNodeFindInClone"}, <<Out, In, In>>)
  @@ Case({"cuGraphNodeGetEnabled"}, <<In, In, Out>>)
  @@ Case({"cuGraphNodeSetEnabled", "cuGraphReleaseUserObject"}, <<In, In, In>>)
  @@ Case({"cuGraphRetainUserObject"}, <<In, In, In, In>>)

GraphicsServed ==
     Case({"cuGraphicsMapResources", "cuGraphicsUnmapResources"}, <<In, Out, In>>)
  @@ Case({"cuGraphicsResourceGetMappedMipmappedArray"}, <<Out, In>>)
  @@ Case({"cuGraphicsResourceGetMappedPointer_v2"}, <<Out, Out, In>>)
  @@ Case({"cuGraphicsResourceSetMapFlags_v2"}, <<In, In>>)
  @@ Case({"cuGraphicsSubResourceGetMappedArray"}, <<Out, In, In, In>>)
  @@ Case({"cuGraphicsUnregisterResource"}, <<In>>)

GreenContextsServed ==
     Case({"cuGreenCtxCreate", "cuGreenCtxStreamCreate"}, <<Out, In, In, In>>)
  @@ Case({"cuGreenCtxDestroy", "cuInit", "cuIpcCloseMemHandle"}, <<In>>)
  @@ Case({"cuGreenCtxRecordEvent", "cuGreenCtxWaitEvent"}, <<In, In>>)

KernelCallsServed ==
     Case({"cuKernelGetAttribute"}, <<Out, In, In, In>>)
  @@ Case({"cuKernelGetFunction", "cuKernelGetLibrary"}, <<Out, In>>)
  @@ Case({"cuKernelGetParamInfo"}, <<In, In, Out, Out>>)
  @@ Case({"cuKernelSetAttribute", "cuLaunchGridAsync"}, <<In, In, In, In>>)
  @@ Case({"cuKernelSetCacheConfig", "cuLaunchGrid"}, <<In, In, In>>)
  @@ Case({"cuLaunch"}, <<In>>)

LibrariesServed ==
     Case({"cuLibraryGetGlobal", "cuLibraryGetManaged"}, <<Out, Out, In, Str>>)
  @@ Case({"cuLibraryGetKernel"}, <<Out, In, Str>>)
  @@ Case({"cuLibraryGetKernelCount", "cuLibraryGetModule"}, <<Out, In>>)
  @@ Case({"cuLibraryLoadData"}, <<Out, Image, Ignored, Ignored, In, Ignored, Ignored, In>>)
  @@ Case({"cuLibraryUnload", "cuLinkDestroy"}, <<In>>)

MemoryServed1 ==
     Case({"cuMemAddressFree", "cuMemFreeAsync"}, <<In, In>>)
  @@ Case({"cuMemAddressReserve"}, <<Out, In, In, In, In>>)
  @@ Case({"cuMemAdvise"}, <<In, In, In, In>>)
  @@ Case({"cuMemAllocAsync"}, <<Out, In, In>>)
  @@ Case({"cuMemAllocFromPoolAsync"}, <<Out, In, In, In>>)
  @@ Case({"cuMemAllocPitch_v2"}, <<Out, Out, In, In, In>>)
  @@ Case({"cuMemCreate"}, <<Out, In, PodIn, In>>)
  @@ Case({"cuMemGetAccess"}, <<Out, PodIn, In>>)

MemoryServed2 ==
     Case({"cuMemGetAddressRange_v2"}, <<Out, Out, In>>)
  @@ Case({"cuMemGetAllocationGranularity"}, <<Out, PodIn, In>>)
  @@ Case({"cuMemGetAllocationPropertiesFromHandle"}, <<PodOut, In>>)
  @@ Case({"cuMemGetInfo_v2"}, <<Out, Out>>)
  @@ Case({"cuMemMap"}, <<In, In, In, In, In>>)
  @@ Case({"cuMemPoolDestroy", "cuMemRelease"}, <<In>>)
  @@ Case({"cuMemPoolTrimTo", "cuMemUnmap"}, <<In, In>>)
  @@ Case({"cuMemPrefetchAsync"}, <<In, In, In, In>>)
  @@ Case({"cuMemSetAccess"}, <<In, In, InBuf(4), In>>)

CopiesServed1 ==
     Case({"cuMemcpy", "cuMemcpyDtoD_v2"}, <<In, In, In>>)
  @@ Case({"cuMemcpyAsync", "cuMemcpyAtoD_v2", "cuMemcpyDtoA_v2", "cuMemcpyDtoDAsync_v2"}, <<In, In, In, In>>)
  @@ Case({"cuMemcpyAtoA_v2"}, <<In, In, In, In, In>>)

CopiesServed2 ==
     CaseSynced({"cuMemcpyDtoHAsync_v2"}, <<OutBuf(3), In, In, In>>)
  @@ Case({"cuMemcpyDtoH_v2"}, <<OutBuf(3), In, In>>)
  @@ Case({"cuMemcpyHtoDAsync_v2"}, <<In, InBuf(3), In, In>>)
  @@ Case({"cuMemcpyHtoD_v2"}, <<In, InBuf(3), In>>)
  @@ Case({"cuMemcpyPeer"}, <<In, In, In, In, In>>)
  @@ Case({"cuMemcpyPeerAsync"}, <<In, In, In, In, In, In>>)

FillsServed ==
     Case({"cuMemsetD16Async", "cuMemsetD32Async", "cuMemsetD8Async"}, <<In, In, In, In>>)
  @@ Case({"cuMemsetD16_v2", "cuMemsetD32_v2", "cuMemsetD8_v2"}, <<In, In, In>>)
  @@ Case({"cuMemsetD2D16Async", "cuMemsetD2D32Async", "cuMemsetD2D8Async"}, <<In, In, In, In, In, In>>)
  @@ Case({"cuMemsetD2D16_v2", "cuMemsetD2D32_v2", "cuMemsetD2D8_v2"}, <<In, In, In, In, In>>)

ModulesServed ==
     Case({"cuMipmappedArrayDestroy", "cuModuleUnload"}, <<In>>)
  @@ Case({"cuMipmappedArrayGetLevel"}, <<Out, In, In>>)
  @@ Case({"cuModuleGetFunction", "cuModuleGetSurfRef", "cuModuleGetTexRef"}, <<Out, In, Str>>)
  @@ Case({"cuModuleGetFunctionCount"}, <<Out, In>>)
  @@ Case({"cuModuleGetGlobal_v2"}, <<Out, Out, In, Str>>)
  @@ Case({"cuModuleGetLoadingMode"}, <<Out>>)
  @@ Case({"cuModuleLoad"}, <<Out, Str>>)
  @@ Case({"cuModuleLoadData", "cuModuleLoadFatBinary"}, <<Out, Image>>)

MulticastsServed ==
     Case({"cuMulticastAddDevice", "cuParamSetSize"}, <<In, In>>)
  @@ Case({"cuMulticastBindAddr"}, <<In, In, In, In, In>>)
  @@ Case({"cuMulticastBindMem"}, <<In, In, In, In, In, In>>)
  @@ Case({"cuMulticastUnbind"}, <<In, In, In, In>>)
  @@ Case({"cuOccupancyAvailableDynamicSMemPerBlock",
           "cuOccupancyMaxActiveBlocksPerMultiprocessor"}, <<Out, In, In, In>>)
  @@ Case({"cuOccupancyMaxActiveBlocksPerMultiprocessorWithFlags"}, <<Out, In, In, In, In>>)
  @@ Case({"cuParamSetTexRef", "cuParamSetf", "cuParamSeti"}, <<In, In, In>>)

StreamsServed1 ==
     Case({"cuStreamAttachMemAsync"}, <<In, In, In, In>>)
  @@ Case({"cuStreamBeginCapture_v2", "cuStreamCopyAttributes"}, <<In, In>>)
  @@ Case({"cuStreamCreate"}, <<Out, In>>)
  @@ Case({"cuStreamCreateWithPriority"}, <<Out, In, In>>)
  @@ Case({"cuStreamDestroy_v2"}, <<In>>)
  @@ Case({"cuStreamEndCapture", "cuStreamGetCtx", "cuStreamGetDevice", "cuStreamGetFlags"},
          <<In, Out>>)
  @@ Case({"cuStreamGetCtx_v2"}, <<In, Out, Out>>)

StreamsServed2 ==
     Case({"cuStreamGetGreenCtx", "cuStreamGetId", "cuStreamGetPriority", "cuStreamIsCapturing"},
          <<In, Out>>)
  @@ Case({"cuStreamQuery"}, <<In>>)
  @@ Case({"cuStreamWaitEvent"}, <<In, In, In>>)
  @@ Case({"cuStreamWaitValue32_v2", "cuStreamWaitValue64_v2", "cuStreamWriteValue32_v2",
           "cuStreamWriteValue64_v2"}, <<In, In, In, In>>)

SurfacesServed ==
     Case({"cuSurfObjectDestroy"}, <<In>>)
  @@ Case({"cuSurfRefGetArray"}, <<Out, In>>)
  @@ Case({"cuSurfRefSetArray"}, <<In, In, In>>)

TexturesServed1 ==
     Case({"cuTexObjectDestroy", "cuTexRefDestroy"}, <<In>>)
  @@ Case({"cuTexRefCreate"}, <<Out>>)
  @@ Case({"cuTexRefGetAddressMode"}, <<Out, In, In>>)
  @@ Case({"cuTexRefGetAddress_v2", "cuTexRefGetArray", "cuTexRefGetBorderColor",
           "cuTexRefGetFilterMode", "cuTexRefGetFlags"}, <<Out, In>>)
  @@ Case({"cuTexRefGetFormat"}, <<Out, Out, In>>)

TexturesServed2 ==
     Case({"cuTexRefGetMaxAnisotropy", "cuTexRefGetMipmapFilterMode", "cuTexRefGetMipmapLevelBias",
           "cuTexRefGetMipmappedArray"}, <<Out, In>>)
  @@ Case({"cuTexRefGetMipmapLevelClamp"}, <<Out, Out, In>>)
  @@ Case({"cuTexRefSetAddressMode", "cuTexRefSetArray"}, <<In, In, In>>)
  @@ Case({"cuTexRefSetAddress_v2"}, <<Out, In, In, In>>)
  @@ Case({"cuTexRefSetBorderColor"}, <<In, Out>>)

TexturesServed3 ==
     Case({"cuTexRefSetFilterMode", "cuTexRefSetFlags", "cuTexRefSetMaxAnisotropy",
           "cuTexRefSetMipmapFilterMode", "cuTexRefSetMipmapLevelBias", "cuUserObjectRelease",
           "cuUserObjectRetain"}, <<In, In>>)
  @@ Case({"cuTexRefSetFormat", "cuTexRefSetMipmapLevelClamp", "cuTexRefSetMipmappedArray"},
          <<In, In, In>>)

(* The cases.                                                              *)
Cases ==
  ArraysServed @@ ContextsServed1 @@ ContextsServed2 @@ ExternalServed @@ DeviceInfoServed1 @@
  DeviceInfoServed2 @@ EventsServed @@ FunctionsServed @@ GraphNodesServed1 @@
  GraphNodesServed2 @@ GraphNodesServed3 @@ GraphicsServed @@ GreenContextsServed @@
  KernelCallsServed @@ LibrariesServed @@ MemoryServed1 @@ MemoryServed2 @@ CopiesServed1 @@
  CopiesServed2 @@ FillsServed @@ ModulesServed @@ MulticastsServed @@ StreamsServed1 @@
  StreamsServed2 @@ SurfacesServed @@ TexturesServed1 @@ TexturesServed2 @@ TexturesServed3
=============================================================================
