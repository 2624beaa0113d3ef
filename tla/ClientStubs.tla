---------------------------- MODULE ClientStubs -----------------------------
(***************************************************************************)
(* What each generated stub of the driver's interface takes, in the order  *)
(* it writes its request: client/generated/client_stubs.cpp.  The families *)
(* are in the order of the file.  A function of the file that no family    *)
(* names is a refusal: it returns CUDA_ERROR_NOT_SUPPORTED and sends       *)
(* nothing.  Which streams a stub marks is PendingWork's subject.          *)
(***************************************************************************)
EXTENDS StubParams

(* A stub waits for its answer, or has nothing to return and does not.     *)
Each(names, params)      == [n \in names |-> [params |-> params, waits |-> TRUE]]
EachAsync(names, params) == [n \in names |-> [params |-> params, waits |-> FALSE]]

Arrays ==
     Each({"cuArrayDestroy"}, <<In>>)
  @@ Each({"cuArrayGetPlane"}, <<Out, In, In>>)
  @@ Each({"cuCheckpointProcessGetRestoreThreadId", "cuCheckpointProcessGetState"}, <<In, Out>>)

Contexts1 ==
     Each({"cuCtxAttach", "cuCtxFromGreenCtx"}, <<Out, In>>)
  @@ Each({"cuCtxCreate_v2"}, <<Out, In, In>>)
  @@ Each({"cuCtxDestroy_v2", "cuCtxDetach", "cuCtxDisablePeerAccess"}, <<In>>)
  @@ Each({"cuCtxEnablePeerAccess"}, <<In, In>>)
  @@ Each({"cuCtxGetApiVersion"}, <<In, Out>>)
  @@ Each({"cuCtxGetCacheConfig", "cuCtxGetCurrent", "cuCtxGetDevice", "cuCtxGetFlags"}, <<Out>>)

Contexts2 ==
     Each({"cuCtxGetId"}, <<In, Out>>)
  @@ Each({"cuCtxGetLimit"}, <<Out, In>>)
  @@ Each({"cuCtxGetSharedMemConfig", "cuCtxPopCurrent_v2"}, <<Out>>)
  @@ Each({"cuCtxGetStreamPriorityRange"}, <<Out, Out>>)
  @@ Each({"cuCtxPushCurrent_v2", "cuCtxSetCacheConfig", "cuCtxSetCurrent", "cuCtxSetFlags",
           "cuCtxSetSharedMemConfig"}, <<In>>)
  @@ Each({"cuCtxRecordEvent", "cuCtxSetLimit", "cuCtxWaitEvent"}, <<In, In>>)
  @@ Each({"cuCtxResetPersistingL2Cache", "cuCtxSynchronize"}, <<>>)

External ==
     Each({"cuDestroyExternalMemory", "cuDestroyExternalSemaphore"}, <<In>>)

DeviceInfo1 ==
     Each({"cuDeviceCanAccessPeer", "cuDeviceGetAttribute", "cuDeviceGetExecAffinitySupport"},
          <<Out, In, In>>)
  @@ Each({"cuDeviceComputeCapability"}, <<Out, Out, In>>)
  @@ Each({"cuDeviceGet", "cuDeviceGetDefaultMemPool", "cuDeviceGetMemPool"}, <<Out, In>>)
  @@ Each({"cuDeviceGetByPCIBusId"}, <<Out, Str>>)
  @@ Each({"cuDeviceGetCount"}, <<Out>>)
  @@ Each({"cuDeviceGetLuid"}, <<OutBuf(0), Out, In>>)

DeviceInfo2 ==
     Each({"cuDeviceGetName"}, <<OutBuf(2), In, In>>)
  @@ Each({"cuDeviceGetP2PAttribute", "cuDeviceGetTexture1DLinearMaxWidth"}, <<Out, In, In, In>>)
  @@ Each({"cuDeviceGetPCIBusId"}, <<Out, In, In>>)
  @@ Each({"cuDeviceGetUuid", "cuDeviceGetUuid_v2"}, <<PodOut, In>>)
  @@ Each({"cuDeviceGraphMemTrim"}, <<In>>)
  @@ Each({"cuDeviceSetMemPool", "cuDeviceUnregisterAsyncNotification"}, <<In, In>>)
  @@ Each({"cuDeviceTotalMem_v2"}, <<Out, In>>)

Events ==
     Each({"cuEventCreate"}, <<Out, In>>)
  @@ Each({"cuEventDestroy_v2", "cuEventQuery", "cuEventSynchronize"}, <<In>>)
  @@ Each({"cuEventElapsedTime", "cuEventElapsedTime_v2"}, <<Out, In, In>>)
  @@ EachAsync({"cuEventRecord"}, <<In, In>>)
  @@ Each({"cuEventRecordWithFlags"}, <<In, In, In>>)
  @@ Each({"cuFlushGPUDirectRDMAWrites"}, <<In, In>>)

Functions ==
     Each({"cuFuncGetAttribute"}, <<Out, In, In>>)
  @@ Each({"cuFuncGetModule", "cuFuncIsLoaded"}, <<Out, In>>)
  @@ Each({"cuFuncGetParamInfo"}, <<In, In, Out, Out>>)
  @@ Each({"cuFuncLoad"}, <<In>>)
  @@ Each({"cuFuncSetAttribute"}, <<In, In, In>>)
  @@ Each({"cuFuncSetBlockShape"}, <<In, In, In, In>>)
  @@ Each({"cuFuncSetCacheConfig", "cuFuncSetSharedMemConfig", "cuFuncSetSharedSize"}, <<In, In>>)

GraphNodes1 ==
     Each({"cuGraphChildGraphNodeGetGraph", "cuGraphEventRecordNodeGetEvent",
           "cuGraphEventWaitNodeGetEvent"}, <<In, Out>>)
  @@ Each({"cuGraphClone", "cuGraphCreate"}, <<Out, In>>)
  @@ Each({"cuGraphConditionalHandleCreate"}, <<Out, In, In, In, In>>)
  @@ Each({"cuGraphDebugDotPrint"}, <<In, Str, In>>)
  @@ Each({"cuGraphDestroy", "cuGraphDestroyNode"}, <<In>>)
  @@ Each({"cuGraphEventRecordNodeSetEvent"}, <<In, In>>)

GraphNodes2 ==
     Each({"cuGraphEventWaitNodeSetEvent"}, <<In, In>>)
  @@ Each({"cuGraphExecChildGraphNodeSetParams", "cuGraphExecEventRecordNodeSetEvent",
           "cuGraphExecEventWaitNodeSetEvent"}, <<In, In, In>>)
  @@ Each({"cuGraphExecDestroy"}, <<In>>)
  @@ Each({"cuGraphExecGetFlags"}, <<In, Out>>)

GraphNodes3 ==
     Each({"cuGraphGetEdges"}, <<In, Out, Out, Out>>)
  @@ Each({"cuGraphInstantiateWithFlags"}, <<Out, In, In>>)
  @@ Each({"cuGraphKernelNodeCopyAttributes", "cuGraphLaunch"}, <<In, In>>)
  @@ Each({"cuGraphMemFreeNodeGetParams"}, <<In, Out>>)

GraphNodes4 ==
     Each({"cuGraphNodeFindInClone"}, <<Out, In, In>>)
  @@ Each({"cuGraphNodeGetEnabled"}, <<In, In, Out>>)
  @@ Each({"cuGraphNodeGetType"}, <<In, Out>>)
  @@ Each({"cuGraphNodeSetEnabled", "cuGraphReleaseUserObject"}, <<In, In, In>>)
  @@ Each({"cuGraphRetainUserObject"}, <<In, In, In, In>>)
  @@ Each({"cuGraphUpload"}, <<In, In>>)

Graphics ==
     Each({"cuGraphicsMapResources", "cuGraphicsUnmapResources"}, <<In, Out, In>>)
  @@ Each({"cuGraphicsResourceGetMappedMipmappedArray"}, <<Out, In>>)
  @@ Each({"cuGraphicsResourceGetMappedPointer_v2"}, <<Out, Out, In>>)
  @@ Each({"cuGraphicsResourceSetMapFlags_v2"}, <<In, In>>)
  @@ Each({"cuGraphicsSubResourceGetMappedArray"}, <<Out, In, In, In>>)
  @@ Each({"cuGraphicsUnregisterResource"}, <<In>>)

GreenContexts ==
     Each({"cuGreenCtxCreate", "cuGreenCtxStreamCreate"}, <<Out, In, In, In>>)
  @@ Each({"cuGreenCtxDestroy", "cuInit", "cuIpcCloseMemHandle"}, <<In>>)
  @@ Each({"cuGreenCtxRecordEvent", "cuGreenCtxWaitEvent"}, <<In, In>>)

KernelCalls ==
     Each({"cuKernelGetAttribute"}, <<Out, In, In, In>>)
  @@ Each({"cuKernelGetFunction", "cuKernelGetLibrary"}, <<Out, In>>)
  @@ Each({"cuKernelGetParamInfo"}, <<In, In, Out, Out>>)
  @@ Each({"cuKernelSetAttribute", "cuLaunchGridAsync"}, <<In, In, In, In>>)
  @@ Each({"cuKernelSetCacheConfig", "cuLaunchGrid"}, <<In, In, In>>)
  @@ Each({"cuLaunch"}, <<In>>)

Libraries ==
     Each({"cuLibraryGetGlobal", "cuLibraryGetManaged"}, <<Out, Out, In, Str>>)
  @@ Each({"cuLibraryGetKernel"}, <<Out, In, Str>>)
  @@ Each({"cuLibraryGetKernelCount", "cuLibraryGetModule"}, <<Out, In>>)
  @@ Each({"cuLibraryLoadData"}, <<Out, Image, Ignored, Ignored, In, Ignored, Ignored, In>>)
  @@ Each({"cuLibraryUnload", "cuLinkDestroy"}, <<In>>)

Memory1 ==
     Each({"cuMemAddressFree"}, <<In, In>>)
  @@ Each({"cuMemAddressReserve"}, <<Out, In, In, In, In>>)
  @@ Each({"cuMemAdvise"}, <<In, In, In, In>>)
  @@ Each({"cuMemAllocAsync"}, <<Out, In, In>>)
  @@ Each({"cuMemAllocFromPoolAsync"}, <<Out, In, In, In>>)
  @@ Each({"cuMemAllocPitch_v2"}, <<Out, Out, In, In, In>>)
  @@ Each({"cuMemCreate"}, <<Out, In, PodIn, In>>)

Memory2 ==
     Each({"cuMemFreeAsync"}, <<In, In>>)
  @@ Each({"cuMemGetAccess", "cuMemGetAllocationGranularity"}, <<Out, PodIn, In>>)
  @@ Each({"cuMemGetAddressRange_v2"}, <<Out, Out, In>>)
  @@ Each({"cuMemGetAllocationPropertiesFromHandle"}, <<PodOut, In>>)
  @@ Each({"cuMemGetInfo_v2"}, <<Out, Out>>)
  @@ Each({"cuMemMap"}, <<In, In, In, In, In>>)

Memory3 ==
     Each({"cuMemPoolDestroy", "cuMemRelease"}, <<In>>)
  @@ Each({"cuMemPoolTrimTo", "cuMemUnmap"}, <<In, In>>)
  @@ Each({"cuMemPrefetchAsync"}, <<In, In, In, In>>)
  @@ Each({"cuMemSetAccess"}, <<In, In, InBuf(4), In>>)

Copies1 ==
     Each({"cuMemcpy"}, <<In, In, In>>)
  @@ Each({"cuMemcpyAsync", "cuMemcpyAtoD_v2", "cuMemcpyDtoA_v2"}, <<In, In, In, In>>)
  @@ Each({"cuMemcpyAtoA_v2"}, <<In, In, In, In, In>>)

Copies2 ==
     Each({"cuMemcpyDtoDAsync_v2"}, <<In, In, In, In>>)
  @@ Each({"cuMemcpyDtoD_v2"}, <<In, In, In>>)
  @@ Each({"cuMemcpyDtoHAsync_v2"}, <<OutBuf(3), In, In, In>>)
  @@ Each({"cuMemcpyDtoH_v2"}, <<OutBuf(3), In, In>>)
  @@ EachAsync({"cuMemcpyHtoDAsync_v2"}, <<In, InBuf(3), In, In>>)
  @@ Each({"cuMemcpyHtoD_v2"}, <<In, InBuf(3), In>>)
  @@ Each({"cuMemcpyPeer"}, <<In, In, In, In, In>>)
  @@ Each({"cuMemcpyPeerAsync"}, <<In, In, In, In, In, In>>)

Fills ==
     EachAsync({"cuMemsetD16Async", "cuMemsetD32Async", "cuMemsetD8Async"}, <<In, In, In, In>>)
  @@ Each({"cuMemsetD16_v2", "cuMemsetD32_v2", "cuMemsetD8_v2"}, <<In, In, In>>)
  @@ EachAsync({"cuMemsetD2D16Async", "cuMemsetD2D32Async", "cuMemsetD2D8Async"},
               <<In, In, In, In, In, In>>)
  @@ Each({"cuMemsetD2D16_v2", "cuMemsetD2D32_v2", "cuMemsetD2D8_v2"}, <<In, In, In, In, In>>)

Modules1 ==
     Each({"cuMipmappedArrayDestroy"}, <<In>>)
  @@ Each({"cuMipmappedArrayGetLevel"}, <<Out, In, In>>)
  @@ Each({"cuModuleGetFunction"}, <<Out, In, Str>>)
  @@ Each({"cuModuleGetFunctionCount"}, <<Out, In>>)
  @@ Each({"cuModuleGetGlobal_v2"}, <<Out, Out, In, Str>>)
  @@ Each({"cuModuleGetLoadingMode"}, <<Out>>)

Modules2 ==
     Each({"cuModuleGetSurfRef", "cuModuleGetTexRef"}, <<Out, In, Str>>)
  @@ Each({"cuModuleLoad"}, <<Out, Str>>)
  @@ Each({"cuModuleLoadData", "cuModuleLoadFatBinary"}, <<Out, Image>>)
  @@ Each({"cuModuleUnload"}, <<In>>)

Multicasts1 ==
     Each({"cuMulticastAddDevice"}, <<In, In>>)
  @@ Each({"cuMulticastBindAddr"}, <<In, In, In, In, In>>)
  @@ Each({"cuMulticastBindMem"}, <<In, In, In, In, In, In>>)
  @@ Each({"cuMulticastUnbind"}, <<In, In, In, In>>)
  @@ Each({"cuOccupancyAvailableDynamicSMemPerBlock",
           "cuOccupancyMaxActiveBlocksPerMultiprocessor"}, <<Out, In, In, In>>)

Multicasts2 ==
     Each({"cuOccupancyMaxActiveBlocksPerMultiprocessorWithFlags"}, <<Out, In, In, In, In>>)
  @@ Each({"cuParamSetSize"}, <<In, In>>)
  @@ Each({"cuParamSetTexRef", "cuParamSetf", "cuParamSeti"}, <<In, In, In>>)

Streams1 ==
     Each({"cuStreamAttachMemAsync"}, <<In, In, In, In>>)
  @@ Each({"cuStreamBeginCapture_v2", "cuStreamCopyAttributes"}, <<In, In>>)
  @@ Each({"cuStreamCreate"}, <<Out, In>>)
  @@ Each({"cuStreamCreateWithPriority"}, <<Out, In, In>>)
  @@ Each({"cuStreamDestroy_v2"}, <<In>>)
  @@ Each({"cuStreamEndCapture", "cuStreamGetCtx", "cuStreamGetDevice"}, <<In, Out>>)
  @@ Each({"cuStreamGetCtx_v2"}, <<In, Out, Out>>)

Streams2 ==
     Each({"cuStreamGetFlags", "cuStreamGetGreenCtx", "cuStreamGetId", "cuStreamGetPriority",
           "cuStreamIsCapturing"}, <<In, Out>>)
  @@ Each({"cuStreamQuery"}, <<In>>)
  @@ EachAsync({"cuStreamWaitEvent"}, <<In, In, In>>)
  @@ Each({"cuStreamWaitValue32_v2", "cuStreamWaitValue64_v2", "cuStreamWriteValue32_v2",
           "cuStreamWriteValue64_v2"}, <<In, In, In, In>>)

Surfaces ==
     Each({"cuSurfObjectDestroy"}, <<In>>)
  @@ Each({"cuSurfRefGetArray"}, <<Out, In>>)
  @@ Each({"cuSurfRefSetArray"}, <<In, In, In>>)

Textures1 ==
     Each({"cuTexObjectDestroy", "cuTexRefDestroy"}, <<In>>)
  @@ Each({"cuTexRefCreate"}, <<Out>>)
  @@ Each({"cuTexRefGetAddressMode"}, <<Out, In, In>>)
  @@ Each({"cuTexRefGetAddress_v2", "cuTexRefGetArray", "cuTexRefGetBorderColor",
           "cuTexRefGetFilterMode", "cuTexRefGetFlags"}, <<Out, In>>)

Textures2 ==
     Each({"cuTexRefGetFormat", "cuTexRefGetMipmapLevelClamp"}, <<Out, Out, In>>)
  @@ Each({"cuTexRefGetMaxAnisotropy", "cuTexRefGetMipmapFilterMode", "cuTexRefGetMipmapLevelBias",
           "cuTexRefGetMipmappedArray"}, <<Out, In>>)
  @@ Each({"cuTexRefSetAddressMode", "cuTexRefSetArray"}, <<In, In, In>>)
  @@ Each({"cuTexRefSetAddress_v2"}, <<Out, In, In, In>>)

Textures3 ==
     Each({"cuTexRefSetBorderColor"}, <<In, Out>>)
  @@ Each({"cuTexRefSetFilterMode", "cuTexRefSetFlags", "cuTexRefSetMaxAnisotropy",
           "cuTexRefSetMipmapFilterMode", "cuTexRefSetMipmapLevelBias", "cuUserObjectRelease",
           "cuUserObjectRetain"}, <<In, In>>)
  @@ Each({"cuTexRefSetFormat", "cuTexRefSetMipmapLevelClamp", "cuTexRefSetMipmappedArray"},
          <<In, In, In>>)

(* The stubs.                                                              *)
Stubs ==
  Arrays @@ Contexts1 @@ Contexts2 @@ External @@ DeviceInfo1 @@ DeviceInfo2 @@ Events @@
  Functions @@ GraphNodes1 @@ GraphNodes2 @@ GraphNodes3 @@ GraphNodes4 @@ Graphics @@
  GreenContexts @@ KernelCalls @@ Libraries @@ Memory1 @@ Memory2 @@ Memory3 @@ Copies1 @@
  Copies2 @@ Fills @@ Modules1 @@ Modules2 @@ Multicasts1 @@ Multicasts2 @@ Streams1 @@
  Streams2 @@ Surfaces @@ Textures1 @@ Textures2 @@ Textures3
=============================================================================
